---------------------------- MODULE Spec2Model ----------------------------
(***************************************************************************)
(* Verification model of the THRYX pricing core.                           *)
(*                                                                         *)
(*   SimpleAMM    (src/unnamed/part_003)  constant-product pool            *)
(*   CreatorCoin  (src/unnamed/part_007)  bonding-curve social token       *)
(*   BondingCurveLib (src/unnamed/part_006), ValueProtector                *)
(*                (src/contracts/StablecoinGas.sol)                        *)
(*   AgentOracle  (src/unnamed/part_004)  median-consensus price oracle,   *)
(*                with AgentRegistry (src/contracts/AgentRegistry.sol)     *)
(*   WelcomeBonus (src/unnamed/part_007)  one-time signup bonus, minted    *)
(*                through ThryxTokenV2.mint                                *)
(*                                                                         *)
(* Every external call of a contract is one atomic action (the EVM runs    *)
(* transactions one at a time, and a revert undoes the whole call).  A     *)
(* reverted call leaves the contract state as it was; the model records    *)
(* the call and its revert reason in the history variables *Last so that   *)
(* properties can speak about failed calls.                                *)
(*                                                                         *)
(* TLC's integers are 32-bit.  The pool is therefore exercised with small  *)
(* token amounts (its constants FEE_NUMERATOR and FEE_DENOMINATOR keep     *)
(* their values), and the bonding curve's 18-decimal constants are         *)
(* expressed in coarser units: ETH in units of 1e15 wei, tokens in units   *)
(* of 1e18 base units, prices in units of 1e12 wei per token.  In these    *)
(* units 1e18 (WAD) is 1000 and BASE_PRICE (1e14) is 100; the formulas,    *)
(* their order of operations and every truncating division are those of    *)
(* the source.                                                             *)
(***************************************************************************)
EXTENDS Integers, Sequences, FiniteSets, TLC

VARIABLES
    \* ---- SimpleAMM ----
    reserveA,       \* uint256 reserveA
    reserveB,       \* uint256 reserveB
    totalFeesA,     \* uint256 totalFeesA
    totalFeesB,     \* uint256 totalFeesB
    lpBalance,      \* ERC20 balances of the LP token (SimpleAMM is ERC20)
    balA,           \* tokenA.balanceOf, per holder (users and the pool)
    balB,           \* tokenB.balanceOf, per holder (users and the pool)
    ammLast,        \* history: the last call made to the pool and its outcome
    ammPrev,        \* history: the call before it, if it was a successful addLiquidity
    ammOps,         \* history: number of calls made to the pool
    \* ---- CreatorCoin / ValueProtector ----
    coinBalance,    \* ERC20 balances of the creator coin
    priceFloor,     \* CreatorCoin.priceFloor
    allTimeHigh,    \* CreatorCoin.allTimeHigh
    totalEthLocked, \* CreatorCoin.totalEthLocked
    totalVolume,    \* CreatorCoin.totalVolume
    totalTrades,    \* CreatorCoin.totalTrades
    protocolTreasury, \* CreatorCoin.protocolTreasury (set by the constructor)
    ethBal,         \* ETH balance per account (users, treasury, the coin contract)
    vpPriceFloor,   \* ValueProtector.priceFloor[coin]
    coinLast,       \* history: the last call made to the coin and its outcome
    coinOps,        \* history: number of calls made to the coin
    \* ---- AgentOracle / AgentRegistry ----
    agents,         \* AgentRegistry.agents (owner and isActive of each agent)
    paused,         \* Pausable._paused of the oracle
    now,            \* block.timestamp
    priceFeeds,     \* AgentOracle.priceFeeds
    agentReputations, \* AgentOracle.agentReputations
    activePairs,    \* AgentOracle.activePairs
    oracleLast,     \* history: the last call made to the oracle and its outcome
    oracleOps,      \* history: number of calls (and time steps) of the oracle
    \* ---- WelcomeBonus / ThryxTokenV2 ----
    token,          \* WelcomeBonus.token
    bonusAmount,    \* WelcomeBonus.bonusAmount
    claimed,        \* WelcomeBonus.claimed
    totalClaims,    \* WelcomeBonus.totalClaims
    claimingEnabled, \* WelcomeBonus.claimingEnabled
    relayer,        \* WelcomeBonus.relayer
    minters,        \* minters[WelcomeBonus] of each token contract
    thryxBalance,   \* balanceOf of each token contract, per account
    credited,       \* history: number of times the bonus was minted to each account
    bonusLast,      \* history: the last call made to WelcomeBonus and its outcome
    bonusOps,       \* history: number of calls made to WelcomeBonus and the tokens
    \* ---- ThryxToken ----
    balanceOf,      \* ERC20 balances of THRYX, the token contract's own included
    stakedBalance,  \* mapping(address => uint256) stakedBalance
    stakeTimestamp, \* mapping(address => uint256) stakeTimestamp
    delegates,      \* mapping(address => address) delegates
    delegatedVotes, \* mapping(address => uint256) delegatedVotes
    rewardRate,     \* uint256 rewardRate
    lastRewardClaim,\* mapping(address => uint256) lastRewardClaim
    totalStaked,    \* uint256 totalStaked
    totalDelegated, \* uint256 totalDelegated
    stakersCount,   \* uint256 stakersCount
    blockTime,      \* block.timestamp seen by ThryxToken
    stakeLast,      \* history: the last call made to ThryxToken and its outcome
    stakeOps        \* history: number of calls made to ThryxToken

ammVars == <<reserveA, reserveB, totalFeesA, totalFeesB, lpBalance, balA, balB,
             ammLast, ammPrev, ammOps>>

coinVars == <<coinBalance, priceFloor, allTimeHigh, totalEthLocked, totalVolume,
              totalTrades, protocolTreasury, ethBal, vpPriceFloor, coinLast, coinOps>>

oracleVars == <<agents, paused, now, priceFeeds, agentReputations, activePairs,
                oracleLast, oracleOps>>

bonusVars == <<token, bonusAmount, claimed, totalClaims, claimingEnabled, relayer,
               minters, thryxBalance, credited, bonusLast, bonusOps>>

stakeVars == <<balanceOf, stakedBalance, stakeTimestamp, delegates, delegatedVotes,
               rewardRate, lastRewardClaim, totalStaked, totalDelegated, stakersCount,
               blockTime, stakeLast, stakeOps>>

vars == <<reserveA, reserveB, totalFeesA, totalFeesB, lpBalance, balA, balB,
          ammLast, ammPrev, ammOps,
          coinBalance, priceFloor, allTimeHigh, totalEthLocked, totalVolume,
          totalTrades, protocolTreasury, ethBal, vpPriceFloor, coinLast, coinOps,
          agents, paused, now, priceFeeds, agentReputations, activePairs,
          oracleLast, oracleOps,
          token, bonusAmount, claimed, totalClaims, claimingEnabled, relayer,
          minters, thryxBalance, credited, bonusLast, bonusOps,
          balanceOf, stakedBalance, stakeTimestamp, delegates, delegatedVotes,
          rewardRate, lastRewardClaim, totalStaked, totalDelegated, stakersCount,
          blockTime, stakeLast, stakeOps>>

-----------------------------------------------------------------------------
(* Bounds of the model *)

\* number of calls made to the pool in one behaviour
MaxAmmOps == 3
\* number of calls made to ThryxToken in one behaviour
MaxStakeOps == 3
\* the arguments on which the integer square root is probed
MaxRoot == 300
\* tokenA / tokenB minted to each user before the first call (MockUSDC.mint, MockWETH.mint)
InitBal == 800

Min(a, b) == IF a < b THEN a ELSE b
Max(a, b) == IF a > b THEN a ELSE b

-----------------------------------------------------------------------------
(* SimpleAMM *)

FEE_NUMERATOR == 3
FEE_DENOMINATOR == 1000

AmmUsers == {"alice", "bob"}
AMM == "amm"
AmmHolders == AmmUsers \cup {AMM}

\* tokenIn of swap: tokenA, tokenB, or some other address
TokenAddrs == {"A", "B", "X"}

\* the amounts offered to the pool: 0 (rejected), 1 (an output that rounds to 0), and
\* two amounts large enough for a non-zero fee (amountIn * 3 / 1000 >= 1)
Amounts == {0, 1, 350, 700}
\* minAmountOut of swap
MinOuts == {0, 1, 350}

RECURSIVE SumOver(_, _)
SumOver(f, S) ==
    IF S = {} THEN 0
    ELSE LET x == CHOOSE y \in S : TRUE IN f[x] + SumOver(f, S \ {x})

\* ERC20.totalSupply() of the LP token
totalSupply == SumOver(lpBalance, AmmUsers)

\* SimpleAMM.sqrt: the Babylonian iteration, as the loop runs it
RECURSIVE SqrtLoop(_, _, _)
SqrtLoop(y, z, x) ==
    IF x < z THEN SqrtLoop(y, x, (y \div x + x) \div 2) ELSE z

\* [mutant of sqrt] the first estimate is returned, the loop does not run
sqrtFirstEstimate(y) ==
    IF y > 3 THEN y \div 2 + 1
    ELSE IF y # 0 THEN 1
    ELSE 0

sqrt(y) ==
    IF y > 3 THEN SqrtLoop(y, y, y \div 2 + 1)
    ELSE IF y # 0 THEN 1
    ELSE 0

\* SimpleAMM.min
min(a, b) == IF a < b THEN a ELSE b

NoCall == [op |-> "none", caller |-> "none", err |-> "", tok |-> "none",
           a |-> 0, b |-> 0, m |-> 0, liq |-> 0, out1 |-> 0, out2 |-> 0]

AmmCall(op, caller, err, tok, a, b, m, liq, out1, out2) ==
    [op |-> op, caller |-> caller, err |-> err, tok |-> tok,
     a |-> a, b |-> b, m |-> m, liq |-> liq, out1 |-> out1, out2 |-> out2]

\* the history kept of the call before the last one
PrevOf(last) ==
    IF last.op \in {"addLiquidity", "getAmountOut"} /\ last.err = "" THEN last ELSE NoCall

\* [mutant of AmmRevert] the deposit pulled by addLiquidity before its share check
\* stays in the pool when the check fails
AmmRevertKeepsDeposit(call) ==
    LET kept == call.op = "addLiquidity" /\ call.err = "Insufficient liquidity minted" IN
    /\ ammLast' = call
    /\ ammPrev' = PrevOf(ammLast)
    /\ ammOps' = ammOps + 1
    /\ balA' = IF kept THEN [balA EXCEPT ![call.caller] = @ - call.a, ![AMM] = @ + call.a]
               ELSE balA
    /\ balB' = IF kept THEN [balB EXCEPT ![call.caller] = @ - call.b, ![AMM] = @ + call.b]
               ELSE balB
    /\ UNCHANGED <<reserveA, reserveB, totalFeesA, totalFeesB, lpBalance>>

\* a reverted call: nothing but the history changes
AmmRevert(call) ==
    /\ ammLast' = call
    /\ ammPrev' = PrevOf(ammLast)
    /\ ammOps' = ammOps + 1
    /\ UNCHANGED <<reserveA, reserveB, totalFeesA, totalFeesB, lpBalance, balA, balB>>


\* [mutant of LiquidityMinted] the larger of the two proportional share counts
LiquidityMintedMax(amountA, amountB) ==
    IF totalSupply = 0
    THEN sqrt(amountA * amountB)
    ELSE Max((amountA * totalSupply) \div reserveA,
             (amountB * totalSupply) \div reserveB)

\* liquidity minted by addLiquidity (lines 43-52)
LiquidityMinted(amountA, amountB) ==
    IF totalSupply = 0
    THEN sqrt(amountA * amountB)
    ELSE min((amountA * totalSupply) \div reserveA,
             (amountB * totalSupply) \div reserveB)

\* function addLiquidity(uint256 amountA, uint256 amountB)
addLiquidity(u, amountA, amountB) ==
    LET call(err, liq) ==
            AmmCall("addLiquidity", u, err, "none", amountA, amountB, 0, liq, 0, 0)
    IN
    IF ~(amountA > 0 /\ amountB > 0)
    THEN AmmRevert(call("Amounts must be > 0", 0))
    ELSE IF balA[u] < amountA \/ balB[u] < amountB
    THEN AmmRevert(call("ERC20InsufficientBalance", 0))
    ELSE IF totalSupply # 0 /\ (reserveA = 0 \/ reserveB = 0)
    THEN AmmRevert(call("Panic: division by zero", 0))
    ELSE LET liquidity == LiquidityMinted(amountA, amountB) IN
         IF ~(liquidity > 0)
         THEN AmmRevert(call("Insufficient liquidity minted", 0))
         ELSE /\ balA' = [balA EXCEPT ![u] = @ - amountA, ![AMM] = @ + amountA]
              /\ balB' = [balB EXCEPT ![u] = @ - amountB, ![AMM] = @ + amountB]
              /\ lpBalance' = [lpBalance EXCEPT ![u] = @ + liquidity]
              /\ reserveA' = reserveA + amountA
              /\ reserveB' = reserveB + amountB
              /\ ammLast' = call("", liquidity)
              /\ ammPrev' = PrevOf(ammLast)
              /\ ammOps' = ammOps + 1
              /\ UNCHANGED <<totalFeesA, totalFeesB>>

\* [mutant of WithdrawnB] one unit of tokenB is held back from every withdrawal
WithdrawnBLessOne(liquidity) == Max((liquidity * reserveB) \div totalSupply - 1, 0)

\* [mutant of WithdrawnA] the share of tokenA is rounded up
WithdrawnARoundedUp(liquidity) == (liquidity * reserveA + totalSupply - 1) \div totalSupply

\* amounts paid out by removeLiquidity (lines 70-71)
WithdrawnA(liquidity) == (liquidity * reserveA) \div totalSupply
WithdrawnB(liquidity) == (liquidity * reserveB) \div totalSupply

\* function removeLiquidity(uint256 liquidity)
removeLiquidity(u, liquidity) ==
    LET call(err, outA, outB) ==
            AmmCall("removeLiquidity", u, err, "none", 0, 0, 0, liquidity, outA, outB)
    IN
    IF ~(liquidity > 0)
    THEN AmmRevert(call("Liquidity must be > 0", 0, 0))
    ELSE IF ~(lpBalance[u] >= liquidity)
    THEN AmmRevert(call("Insufficient LP tokens", 0, 0))
    ELSE LET amountA == WithdrawnA(liquidity)
             amountB == WithdrawnB(liquidity)
         IN
         IF ~(amountA > 0 /\ amountB > 0)
         THEN AmmRevert(call("Insufficient liquidity burned", 0, 0))
         ELSE IF balA[AMM] < amountA \/ balB[AMM] < amountB
         THEN AmmRevert(call("ERC20InsufficientBalance", 0, 0))
         ELSE /\ lpBalance' = [lpBalance EXCEPT ![u] = @ - liquidity]
              /\ reserveA' = reserveA - amountA
              /\ reserveB' = reserveB - amountB
              /\ balA' = [balA EXCEPT ![AMM] = @ - amountA, ![u] = @ + amountA]
              /\ balB' = [balB EXCEPT ![AMM] = @ - amountB, ![u] = @ + amountB]
              /\ ammLast' = call("", amountA, amountB)
              /\ ammPrev' = PrevOf(ammLast)
              /\ ammOps' = ammOps + 1
              /\ UNCHANGED <<totalFeesA, totalFeesB>>

\* [mutant of AmountOut] the fee is not taken from the input
AmountOutNoFee(reserveIn, reserveOut, amountIn) ==
    LET amountInWithFee == amountIn * FEE_DENOMINATOR IN
    (amountInWithFee * reserveOut) \div (reserveIn * FEE_DENOMINATOR + amountInWithFee)

\* [mutant of AmountOut] the two reserves are exchanged in the formula
AmountOutReservesExchanged(reserveIn, reserveOut, amountIn) ==
    LET amountInWithFee == amountIn * (FEE_DENOMINATOR - FEE_NUMERATOR) IN
    (amountInWithFee * reserveIn) \div (reserveOut * FEE_DENOMINATOR + amountInWithFee)

\* the swap formula (lines 102-103)
AmountOut(reserveIn, reserveOut, amountIn) ==
    LET amountInWithFee == amountIn * (FEE_DENOMINATOR - FEE_NUMERATOR) IN
    (amountInWithFee * reserveOut) \div (reserveIn * FEE_DENOMINATOR + amountInWithFee)

\* [mutant of getAmountOut] the quote takes tokenA for the input whatever tokenIn is
getAmountOutOneWay(tokenIn, amountIn) ==
    LET amountInWithFee == amountIn * (FEE_DENOMINATOR - FEE_NUMERATOR) IN
    (amountInWithFee * reserveB) \div (reserveA * FEE_DENOMINATOR + amountInWithFee)

\* function getAmountOut(address tokenIn, uint256 amountIn) view: its own copy of
\* the formula, with no check of tokenIn (any address but tokenA is read as tokenB)
getAmountOut(tokenIn, amountIn) ==
    LET isAtoB == tokenIn = "A"
        reserveIn == IF isAtoB THEN reserveA ELSE reserveB
        reserveOut == IF isAtoB THEN reserveB ELSE reserveA
        amountInWithFee == amountIn * (FEE_DENOMINATOR - FEE_NUMERATOR)
    IN (amountInWithFee * reserveOut) \div (reserveIn * FEE_DENOMINATOR + amountInWithFee)

\* the division of getAmountOut is by zero (Panic 0x12) when nothing is offered to
\* an empty input reserve
QuoteDefined(tokenIn, amountIn) ==
    LET reserveIn == IF tokenIn = "A" THEN reserveA ELSE reserveB IN
    reserveIn * FEE_DENOMINATOR + amountIn * (FEE_DENOMINATOR - FEE_NUMERATOR) # 0

\* the fixed-point one of getPrice (1e18 in the source)
PRICE_PRECISION == 1000000

\* function getPrice() view
getPrice ==
    IF reserveA = 0 THEN 0
    ELSE (reserveB * PRICE_PRECISION) \div reserveA

\* [mutant of SwapFee] the fee is rounded up
SwapFeeRoundedUp(amountIn) ==
    (amountIn * FEE_NUMERATOR + FEE_DENOMINATOR - 1) \div FEE_DENOMINATOR

\* the fee recorded by a swap (lines 112, 116)
SwapFee(amountIn) == (amountIn * FEE_NUMERATOR) \div FEE_DENOMINATOR

\* [mutant of SlippageOk] the slippage check is missing
SlippageUnchecked(amountOut, minAmountOut) == TRUE

\* require(amountOut >= minAmountOut, "Slippage exceeded")
SlippageOk(amountOut, minAmountOut) == amountOut >= minAmountOut

\* [mutant of LiquidityOk] an output equal to the whole reserve is let through
LiquidityOkInclusive(amountOut, reserveOut) == amountOut <= reserveOut

\* require(amountOut < reserveOut, "Insufficient liquidity")
LiquidityOk(amountOut, reserveOut) == amountOut < reserveOut

\* [mutant of ReserveOutAfter] the output reserve is not reduced
ReserveOutKept(reserveOut, amountOut) == reserveOut

\* [mutant of ReserveInAfter] the fee is kept out of the reserve
ReserveInAfterFee(reserveIn, amountIn) ==
    reserveIn + amountIn - (amountIn * FEE_NUMERATOR) \div FEE_DENOMINATOR

\* the reserves after a swap (lines 110-111, 114-115)
ReserveInAfter(reserveIn, amountIn) == reserveIn + amountIn
ReserveOutAfter(reserveOut, amountOut) == reserveOut - amountOut

\* function swap(address tokenIn, uint256 amountIn, uint256 minAmountOut)
swap(u, tokenIn, amountIn, minAmountOut) ==
    LET call(err, out) ==
            AmmCall("swap", u, err, tokenIn, amountIn, 0, minAmountOut, 0, out, 0)
    IN
    IF ~(amountIn > 0)
    THEN AmmRevert(call("Amount must be > 0", 0))
    ELSE IF ~(tokenIn = "A" \/ tokenIn = "B")
    THEN AmmRevert(call("Invalid token", 0))
    ELSE LET isAtoB == tokenIn = "A"
             reserveIn == IF isAtoB THEN reserveA ELSE reserveB
             reserveOut == IF isAtoB THEN reserveB ELSE reserveA
             balIn == IF isAtoB THEN balA ELSE balB
             balOut == IF isAtoB THEN balB ELSE balA
         IN
         IF balIn[u] < amountIn
         THEN AmmRevert(call("ERC20InsufficientBalance", 0))
         ELSE LET amountOut == AmountOut(reserveIn, reserveOut, amountIn) IN
              IF ~SlippageOk(amountOut, minAmountOut)
              THEN AmmRevert(call("Slippage exceeded", amountOut))
              ELSE IF ~LiquidityOk(amountOut, reserveOut)
              THEN AmmRevert(call("Insufficient liquidity", amountOut))
              ELSE IF balOut[AMM] < amountOut
              THEN AmmRevert(call("ERC20InsufficientBalance", amountOut))
              ELSE /\ IF isAtoB
                      THEN /\ reserveA' = ReserveInAfter(reserveA, amountIn)
                           /\ reserveB' = ReserveOutAfter(reserveB, amountOut)
                           /\ totalFeesA' = totalFeesA + SwapFee(amountIn)
                           /\ totalFeesB' = totalFeesB
                           /\ balA' = [balA EXCEPT ![u] = @ - amountIn, ![AMM] = @ + amountIn]
                           /\ balB' = [balB EXCEPT ![AMM] = @ - amountOut, ![u] = @ + amountOut]
                      ELSE /\ reserveB' = ReserveInAfter(reserveB, amountIn)
                           /\ reserveA' = ReserveOutAfter(reserveA, amountOut)
                           /\ totalFeesB' = totalFeesB + SwapFee(amountIn)
                           /\ totalFeesA' = totalFeesA
                           /\ balB' = [balB EXCEPT ![u] = @ - amountIn, ![AMM] = @ + amountIn]
                           /\ balA' = [balA EXCEPT ![AMM] = @ - amountOut, ![u] = @ + amountOut]
                   /\ ammLast' = call("", amountOut)
                   /\ ammPrev' = PrevOf(ammLast)
                   /\ ammOps' = ammOps + 1
                   /\ UNCHANGED lpBalance

\* the share amounts a holder offers to removeLiquidity
Liquidities(u) ==
    {0, 1, lpBalance[u], lpBalance[u] \div 2, lpBalance[u] + 1}
    \cup (IF ammLast.op = "addLiquidity" THEN {ammLast.liq} ELSE {})

AddLiquidityCall ==
    /\ ammOps < MaxAmmOps
    /\ \E u \in AmmUsers, a \in Amounts, b \in Amounts : addLiquidity(u, a, b)
    /\ UNCHANGED <<coinVars, oracleVars, bonusVars, stakeVars>>

RemoveLiquidityCall ==
    /\ ammOps < MaxAmmOps
    /\ \E u \in AmmUsers : \E l \in Liquidities(u) : removeLiquidity(u, l)
    /\ UNCHANGED <<coinVars, oracleVars, bonusVars, stakeVars>>

SwapCall ==
    /\ ammOps < MaxAmmOps
    /\ \E u \in AmmUsers, t \in TokenAddrs, a \in Amounts, m \in MinOuts :
           swap(u, t, a, m)
    /\ UNCHANGED <<coinVars, oracleVars, bonusVars, stakeVars>>

\* a view call: it returns a value, recorded in the history, and writes nothing
AmmView(call) ==
    /\ ammLast' = call
    /\ ammPrev' = PrevOf(ammLast)
    /\ ammOps' = ammOps + 1
    /\ UNCHANGED <<reserveA, reserveB, totalFeesA, totalFeesB, lpBalance, balA, balB>>

\* amountIn of getAmountOut: nothing, and an amount the swaps use
QuoteAmounts == {0, 350}

\* The views do not read msg.sender: one caller stands for all. A view is called
\* ahead of a transaction, so the last call of a behaviour is never a view.
GetAmountOutCall ==
    /\ ammOps + 1 < MaxAmmOps
    /\ \E t \in TokenAddrs, a \in QuoteAmounts :
           IF QuoteDefined(t, a)
           THEN AmmView(AmmCall("getAmountOut", "alice", "", t, a, 0, 0, 0,
                                getAmountOut(t, a), 0))
           ELSE AmmView(AmmCall("getAmountOut", "alice", "Panic(0x12)", t, a, 0, 0, 0, 0, 0))
    /\ UNCHANGED <<coinVars, oracleVars, bonusVars, stakeVars>>

GetPriceCall ==
    /\ ammOps + 1 < MaxAmmOps
    /\ AmmView(AmmCall("getPrice", "alice", "", "none", 0, 0, 0, 0, getPrice, 0))
    /\ UNCHANGED <<coinVars, oracleVars, bonusVars, stakeVars>>

AmmInit ==
    /\ reserveA = 0
    /\ reserveB = 0
    /\ totalFeesA = 0
    /\ totalFeesB = 0
    /\ lpBalance = [u \in AmmUsers |-> 0]
    /\ balA = [h \in AmmHolders |-> IF h = AMM THEN 0 ELSE InitBal]
    /\ balB = [h \in AmmHolders |-> IF h = AMM THEN 0 ELSE InitBal]
    /\ ammLast = NoCall
    /\ ammPrev = NoCall
    /\ ammOps = 0

AmmNext ==
    \/ AddLiquidityCall
    \/ RemoveLiquidityCall
    \/ SwapCall

\* The fixture of the SimpleAMM tests. tokenA is MockUSDC, counted here in whole
\* USDC (1e6 base units); tokenB is MockWETH, counted in hundredths of a WETH
\* (1e16 wei). "alice" is the owner, who provides the liquidity, "bob" is user1.
INITIAL_USDC == 10000
INITIAL_WETH == 1000
TRADER_USDC == 1000
TRADER_WETH == 100
\* 1e18 wei of tokenB
ONE_WETH == 100
\* amountIn of the swaps of the tests (100 USDC), its half and its double
ExampleAmounts == {50, 100, 200}

ExampleInit ==
    /\ reserveA = 0
    /\ reserveB = 0
    /\ totalFeesA = 0
    /\ totalFeesB = 0
    /\ lpBalance = [u \in AmmUsers |-> 0]
    /\ balA = [h \in AmmHolders |->
                 IF h = "alice" THEN INITIAL_USDC ELSE IF h = "bob" THEN TRADER_USDC ELSE 0]
    /\ balB = [h \in AmmHolders |->
                 IF h = "alice" THEN INITIAL_WETH ELSE IF h = "bob" THEN TRADER_WETH ELSE 0]
    /\ ammLast = NoCall
    /\ ammPrev = NoCall
    /\ ammOps = 0

\* amm.addLiquidity(INITIAL_USDC, INITIAL_WETH)
ExampleSeedCall ==
    /\ ammOps < MaxAmmOps
    /\ \E u \in AmmUsers : addLiquidity(u, INITIAL_USDC, INITIAL_WETH)
    /\ UNCHANGED <<coinVars, oracleVars, bonusVars, stakeVars>>

\* amm.connect(user).swap(token, swapAmount, 0)
ExampleSwapCall ==
    /\ ammOps < MaxAmmOps
    /\ \E u \in AmmUsers, t \in {"A", "B"}, a \in ExampleAmounts : swap(u, t, a, 0)
    /\ UNCHANGED <<coinVars, oracleVars, bonusVars, stakeVars>>

AmmExampleNext ==
    \/ ExampleSeedCall
    \/ ExampleSwapCall

\* the pool with its two view functions called between the transactions
AmmViewNext ==
    \/ AddLiquidityCall
    \/ RemoveLiquidityCall
    \/ SwapCall
    \/ GetAmountOutCall
    \/ GetPriceCall

-----------------------------------------------------------------------------
(* CreatorCoin *)

\* number of calls made to the coin in one behaviour
MaxCoinOps == 3
\* ETH held by each user before the first call
InitEth == 1200
\* the price function is tabulated at the supplies k * ProbeStep, k <= MaxProbe
MaxProbe == 8
ProbeStep == 40

\* uint256 constant BASE_PRICE = 1e14, in units of 1e12 wei per token
BASE_PRICE == 100
\* uint256 constant GROWTH_FACTOR = 1e12 and the divisor 1e9 of line 79; the curve
\* uses their quotient, in the model's units 1 / 10
GROWTH_FACTOR == 1
CURVE_DIVISOR == 10
\* the divisor 1e15 of line 78 ("Scale for math")
SUPPLY_SCALE == 10
\* the factor 1e18 of lines 103 and 112
WAD == 1000
CREATOR_FEE_BPS == 500
PROTOCOL_FEE_BPS == 100
BPS_DENOMINATOR == 10000

\* address public immutable creator; Ownable(creator_) makes the creator the owner
CREATOR == "creator"
COIN == "coin"
TREASURY == "treasury"
ZERO == "zero"
CoinUsers == {CREATOR, "alice"}
CoinAccounts == CoinUsers \cup {TREASURY, COIN}

\* ERC20.totalSupply() of the creator coin
coinSupply == SumOver(coinBalance, CoinUsers)

\* [mutant of CurrentPriceAt] the price floor is not enforced
CurrentPriceNoFloor(supply, floor) ==
    IF supply = 0
    THEN BASE_PRICE
    ELSE LET normalized == supply \div SUPPLY_SCALE IN
         BASE_PRICE + ((normalized * normalized * GROWTH_FACTOR) \div CURVE_DIVISOR)

\* [mutant of CurrentPriceAt] the price floor is enforced at zero supply only
CurrentPriceFloorAtZero(supply, floor) ==
    IF supply = 0
    THEN (IF floor > 0 /\ BASE_PRICE < floor THEN floor ELSE BASE_PRICE)
    ELSE LET normalized == supply \div SUPPLY_SCALE IN
         BASE_PRICE + ((normalized * normalized * GROWTH_FACTOR) \div CURVE_DIVISOR)

\* the body of getCurrentPrice, at a given supply and floor
CurrentPriceAt(supply, floor) ==
    LET calculatedPrice ==
            IF supply = 0
            THEN BASE_PRICE
            ELSE LET normalized == supply \div SUPPLY_SCALE IN
                 BASE_PRICE + ((normalized * normalized * GROWTH_FACTOR) \div CURVE_DIVISOR)
    IN IF floor > 0 /\ calculatedPrice < floor THEN floor ELSE calculatedPrice

\* BondingCurveLib.calculatePrice for curveType = CURVE_QUADRATIC (lines 32-34, 36,
\* 42-46, 77)
calculatePriceQuadratic(supply, basePrice, growthFactor, floor) ==
    IF supply = 0
    THEN (IF basePrice > floor THEN basePrice ELSE floor)
    ELSE LET normalizedSupply == supply \div SUPPLY_SCALE
             price == basePrice
                      + ((normalizedSupply * normalizedSupply * growthFactor) \div CURVE_DIVISOR)
         IN IF price > floor THEN price ELSE floor

\* function getCurrentPrice() view
getCurrentPrice == CurrentPriceAt(coinSupply, priceFloor)

\* [mutant of getTokensForEth] quoted at the base price, not the current price
getTokensAtBasePrice(ethAmount) == (ethAmount * WAD) \div BASE_PRICE

\* function getTokensForEth(uint256 ethAmount) view
getTokensForEth(ethAmount) == (ethAmount * WAD) \div getCurrentPrice

\* function getEthForTokens(uint256 tokenAmount) view
getEthForTokens(tokenAmount) == (tokenAmount * getCurrentPrice) \div WAD

\* the fee split of buy (lines 122-123) and sell (lines 174-175)
CreatorFee(amount) == (amount * CREATOR_FEE_BPS) \div BPS_DENOMINATOR
ProtocolFee(amount) == (amount * PROTOCOL_FEE_BPS) \div BPS_DENOMINATOR

\* a call to the coin: its function, msg.sender, revert reason ("" when it succeeded),
\* first argument (msg.value for buy), slippage argument, and return value
NoCoinCall == [op |-> "none", caller |-> "none", err |-> "", x |-> 0, m |-> 0, ret |-> 0]

CoinCall(op, caller, err, x, m, ret) ==
    [op |-> op, caller |-> caller, err |-> err, x |-> x, m |-> m, ret |-> ret]

\* a reverted call: nothing but the history changes
CoinRevert(call) ==
    /\ coinLast' = call
    /\ coinOps' = coinOps + 1
    /\ UNCHANGED <<coinBalance, priceFloor, allTimeHigh, totalEthLocked, totalVolume,
                   totalTrades, protocolTreasury, ethBal, vpPriceFloor>>

\* ETH balances after `from` sends `amount` to `to`
Pay(bal, from, to, amount) ==
    IF from = to THEN bal
    ELSE [bal EXCEPT ![from] = @ - amount, ![to] = @ + amount]

\* [mutant of SellLiquidityOk] the liquidity check is missing
SellLiquidityUnchecked(ethBeforeFees) == TRUE

\* [mutant of LockedAfterSell] the backing is reduced by the net payout only
LockedAfterSellNet(ethBeforeFees) ==
    totalEthLocked - (ethBeforeFees - CreatorFee(ethBeforeFees) - ProtocolFee(ethBeforeFees))

\* require(ethBeforeFees <= totalEthLocked, "Insufficient liquidity")
SellLiquidityOk(ethBeforeFees) == ethBeforeFees <= totalEthLocked

\* totalEthLocked after a sell (line 184)
LockedAfterSell(ethBeforeFees) == totalEthLocked - ethBeforeFees

\* [mutant of BuySlippageOk] buy mints whatever the quote is
BuySlippageUnchecked(tokensOut, minTokensOut) == TRUE

\* require(tokensOut >= minTokensOut, "Slippage exceeded") of buy (line 128)
BuySlippageOk(tokensOut, minTokensOut) == tokensOut >= minTokensOut

\* require(ethOut >= minEthOut, "Slippage exceeded") of sell (line 178)
SellSlippageOk(ethOut, minEthOut) == ethOut >= minEthOut

\* [mutant of LockedAfterBuy] the backing is credited with the value sent, fees
\* included
LockedAfterBuyGross(ethForTokens) ==
    totalEthLocked
    + (ethForTokens * BPS_DENOMINATOR)
         \div (BPS_DENOMINATOR - CREATOR_FEE_BPS - PROTOCOL_FEE_BPS)

\* totalEthLocked += ethForTokens  (line 134)
LockedAfterBuy(ethForTokens) == totalEthLocked + ethForTokens

\* [mutant of AllTimeHighAfter] the tracker follows the latest post-trade price
AllTimeHighLatest(newPrice) == newPrice

\* if (newPrice > allTimeHigh) { allTimeHigh = newPrice; }
AllTimeHighAfter(newPrice) == IF newPrice > allTimeHigh THEN newPrice ELSE allTimeHigh

\* function buy(uint256 minTokensOut) payable; `rejects` is the account, if any,
\* whose receive function reverts during this call
buy(u, value, minTokensOut, rejects) ==
    LET call(err) == CoinCall("buy", u, err, value, minTokensOut, 0) IN
    IF ~(value > 0)
    THEN CoinRevert(call("Must send ETH"))
    ELSE LET creatorFee == CreatorFee(value)
             protocolFee == ProtocolFee(value)
             ethForTokens == value - creatorFee - protocolFee
             tokensOut == getTokensForEth(ethForTokens)
             payProtocol == protocolFee > 0 /\ protocolTreasury # ZERO
             bal0 == Pay(ethBal, u, COIN, value)
             bal1 == IF creatorFee > 0 THEN Pay(bal0, COIN, CREATOR, creatorFee) ELSE bal0
             bal2 == IF payProtocol THEN Pay(bal1, COIN, protocolTreasury, protocolFee) ELSE bal1
             newSupply == coinSupply + tokensOut
             newPrice == CurrentPriceAt(newSupply, priceFloor)
         IN
         IF ~BuySlippageOk(tokensOut, minTokensOut)
         THEN CoinRevert(call("Slippage exceeded"))
         ELSE IF creatorFee > 0 /\ rejects = CREATOR
         THEN CoinRevert(call("Creator fee failed"))
         ELSE IF payProtocol /\ rejects = protocolTreasury
         THEN CoinRevert(call("Protocol fee failed"))
         ELSE /\ coinBalance' = [coinBalance EXCEPT ![u] = @ + tokensOut]
              /\ totalEthLocked' = LockedAfterBuy(ethForTokens)
              /\ totalVolume' = totalVolume + value
              /\ totalTrades' = totalTrades + 1
              /\ ethBal' = bal2
              /\ allTimeHigh' = AllTimeHighAfter(newPrice)
              /\ coinLast' = CoinCall("buy", u, "", value, minTokensOut, tokensOut)
              /\ coinOps' = coinOps + 1
              /\ UNCHANGED <<priceFloor, protocolTreasury, vpPriceFloor>>

\* function sell(uint256 tokenAmount, uint256 minEthOut)
sell(u, tokenAmount, minEthOut, rejects) ==
    LET call(err) == CoinCall("sell", u, err, tokenAmount, minEthOut, 0) IN
    IF ~(tokenAmount > 0)
    THEN CoinRevert(call("Must sell tokens"))
    ELSE IF ~(coinBalance[u] >= tokenAmount)
    THEN CoinRevert(call("Insufficient balance"))
    ELSE LET ethBeforeFees == getEthForTokens(tokenAmount)
             creatorFee == CreatorFee(ethBeforeFees)
             protocolFee == ProtocolFee(ethBeforeFees)
             ethOut == ethBeforeFees - creatorFee - protocolFee
             payProtocol == protocolFee > 0 /\ protocolTreasury # ZERO
             bal0 == Pay(ethBal, COIN, u, ethOut)
             bal1 == IF creatorFee > 0 THEN Pay(bal0, COIN, CREATOR, creatorFee) ELSE bal0
             bal2 == IF payProtocol THEN Pay(bal1, COIN, protocolTreasury, protocolFee) ELSE bal1
         IN
         IF ~SellLiquidityOk(ethBeforeFees)
         THEN CoinRevert(call("Insufficient liquidity"))
         ELSE IF ~SellSlippageOk(ethOut, minEthOut)
         THEN CoinRevert(call("Slippage exceeded"))
         ELSE IF LockedAfterSell(ethBeforeFees) < 0
         THEN CoinRevert(call("Panic: arithmetic underflow"))
         ELSE IF rejects = u \/ ethBal[COIN] < ethOut
         THEN CoinRevert(call("ETH transfer failed"))
         ELSE IF creatorFee > 0 /\ (rejects = CREATOR \/ bal0[COIN] < creatorFee)
         THEN CoinRevert(call("Creator fee failed"))
         ELSE IF payProtocol /\ (rejects = protocolTreasury \/ bal1[COIN] < protocolFee)
         THEN CoinRevert(call("Protocol fee failed"))
         ELSE /\ coinBalance' = [coinBalance EXCEPT ![u] = @ - tokenAmount]
              /\ totalEthLocked' = LockedAfterSell(ethBeforeFees)
              /\ totalVolume' = totalVolume + ethBeforeFees
              /\ totalTrades' = totalTrades + 1
              /\ ethBal' = bal2
              /\ coinLast' = CoinCall("sell", u, "", tokenAmount, minEthOut, ethOut)
              /\ coinOps' = coinOps + 1
              /\ UNCHANGED <<priceFloor, allTimeHigh, protocolTreasury, vpPriceFloor>>

\* the floor stored by CreatorCoin.setPriceFloor (line 94)
NewPriceFloor(floor) == floor

\* function setPriceFloor(uint256 floor) external onlyOwner
setPriceFloor(u, floor) ==
    LET call(err) == CoinCall("setPriceFloor", u, err, floor, 0, 0) IN
    IF u # CREATOR
    THEN CoinRevert(call("OwnableUnauthorizedAccount"))
    ELSE /\ priceFloor' = NewPriceFloor(floor)
         /\ coinLast' = call("")
         /\ coinOps' = coinOps + 1
         /\ UNCHANGED <<coinBalance, allTimeHigh, totalEthLocked, totalVolume, totalTrades,
                        protocolTreasury, ethBal, vpPriceFloor>>

-----------------------------------------------------------------------------
(* ValueProtector (the caller layer of the price floor) *)

\* owner() of ValueProtector and the agents it authorized
VpAuthorized == {"alice"}

\* function setPriceFloor(address coin, uint256 floor) external onlyAuthorized
vpSetPriceFloor(u, floor) ==
    LET call(err) == CoinCall("vpSetPriceFloor", u, err, floor, 0, 0) IN
    IF u \notin VpAuthorized
    THEN CoinRevert(call("Not authorized"))
    ELSE /\ vpPriceFloor' = floor
         /\ coinLast' = call("")
         /\ coinOps' = coinOps + 1
         /\ UNCHANGED <<coinBalance, priceFloor, allTimeHigh, totalEthLocked, totalVolume,
                        totalTrades, protocolTreasury, ethBal>>

-----------------------------------------------------------------------------
\* msg.value of buy: 0, 0.001 ETH, 0.1 ETH, 1 ETH
EthValues == {0, 1, 100, 1000}
\* minTokensOut of buy, minEthOut of sell
MinTokens == {0, 1000}
MinEths == {0, 100}
\* the floors offered to setPriceFloor: none, below the base price, above it, and
\* far above it
Floors == {0, 50, 150, 2000}
\* the account, if any, that refuses ETH sent to it during a call
Rejecters == {"none", CREATOR, TREASURY}

\* the token amounts a holder offers to sell
SellAmounts(u) == {0, 1, 10, coinBalance[u], coinBalance[u] + 1}

BuyCall ==
    /\ coinOps < MaxCoinOps
    /\ \E u \in CoinUsers, v \in EthValues, m \in MinTokens, r \in Rejecters :
           /\ v <= ethBal[u]
           /\ buy(u, v, m, r)
    /\ UNCHANGED <<ammVars, oracleVars, bonusVars, stakeVars>>

SellCall ==
    /\ coinOps < MaxCoinOps
    /\ \E u \in CoinUsers, m \in MinEths, r \in Rejecters :
           \E t \in SellAmounts(u) : sell(u, t, m, r)
    /\ UNCHANGED <<ammVars, oracleVars, bonusVars, stakeVars>>

SetPriceFloorCall ==
    /\ coinOps < MaxCoinOps
    /\ \E u \in CoinUsers, f \in Floors : setPriceFloor(u, f)
    /\ UNCHANGED <<ammVars, oracleVars, bonusVars, stakeVars>>

VpSetPriceFloorCall ==
    /\ coinOps < MaxCoinOps
    /\ \E u \in CoinUsers, f \in Floors : vpSetPriceFloor(u, f)
    /\ UNCHANGED <<ammVars, oracleVars, bonusVars, stakeVars>>

CoinInit ==
    /\ coinBalance = [u \in CoinUsers |-> 0]
    /\ priceFloor = 0
    /\ allTimeHigh = 0
    /\ totalEthLocked = 0
    /\ totalVolume = 0
    /\ totalTrades = 0
    /\ protocolTreasury \in {TREASURY, ZERO}
    /\ ethBal = [a \in CoinAccounts |-> IF a \in CoinUsers THEN InitEth ELSE 0]
    /\ vpPriceFloor = 0
    /\ coinLast = NoCoinCall
    /\ coinOps = 0

CoinNext ==
    \/ BuyCall
    \/ SellCall
    \/ SetPriceFloorCall
    \/ VpSetPriceFloorCall

-----------------------------------------------------------------------------
(* AgentOracle (src/unnamed/part_004) and AgentRegistry                     *)
(* (src/contracts/AgentRegistry.sol)                                        *)
(*                                                                          *)
(* The functions of the oracle are written as operators from the contract   *)
(* storage `o` (a record of the oracle variables) to the storage after the  *)
(* call, so that the same definitions produce the steps of the model and    *)
(* the call histories that lead to its initial states.                      *)

\* number of calls and time steps of the oracle in one behaviour
MaxOracleOps == 2
\* block.timestamp when the oracle is deployed
StartTime == 100

MIN_SUBMISSIONS == 3
SUBMISSION_WINDOW == 30
MAX_PRICE_AGE == 300
MAX_DEVIATION_BPS == 1000
ACCURACY_THRESHOLD_BPS == 200

\* the deployer owns the oracle and registered the agents
OWNER == "deployer"
OracleAgents == {"a1", "a2", "a3", "a4"}
Pairs == {"ETH/USD", "BTC/USD"}
\* bytes32(0)
NoPair == "0x0"

\* the storage of the two contracts, and the block timestamp
OracleState ==
    [agents |-> agents, paused |-> paused, now |-> now, priceFeeds |-> priceFeeds,
     agentReputations |-> agentReputations, activePairs |-> activePairs]

\* a mapping entry never written; computedAt is history, not storage: the
\* block.timestamp of the last run of _calculateConsensus for the pair
NoFeed ==
    [pair |-> NoPair, consensusPrice |-> 0, lastUpdate |-> 0, submissionCount |-> 0,
     submissions |-> <<>>, computedAt |-> 0]
NoReputation ==
    [totalSubmissions |-> 0, accurateSubmissions |-> 0, lastSubmission |-> 0,
     isBanned |-> FALSE]

\* the outcome of a call: storage after it, revert reason ("" when it succeeded),
\* and whether ConsensusReached was emitted
Done(o, consensus) == [o |-> o, err |-> "", consensus |-> consensus]

\* [mutant of Revert] the writes made before the revert persist
RevertKeepsWrites(before, after, reason) ==
    [o |-> after, err |-> reason, consensus |-> FALSE]

\* revert(reason) / a failed require: the storage is as it was before the call,
\* whatever the call had written (`after`) by then
Revert(before, after, reason) ==
    [o |-> before, err |-> reason, consensus |-> FALSE]

\* AgentRegistry.validateAgent
validateAgent(o, agentAddress) ==
    o.agents[agentAddress].isActive /\ o.agents[agentAddress].owner # ZERO

\* [mutant of calculateDeviation] the deviation is returned in percent
calculateDeviationPercent(price1, price2) ==
    IF price1 = price2 THEN 0
    ELSE LET diff == IF price1 > price2 THEN price1 - price2 ELSE price2 - price1
         IN (diff * 100) \div price2

\* AgentOracle._calculateDeviation
calculateDeviation(price1, price2) ==
    IF price1 = price2 THEN 0
    ELSE LET diff == IF price1 > price2 THEN price1 - price2 ELSE price2 - price1
         IN (diff * 10000) \div price2

\* [mutant of BanDue] the ban needs more than 20 submissions
BanDueAfter20(totalSubmissions, accuracy) == totalSubmissions > 20 /\ accuracy < 30

\* if (rep.totalSubmissions >= 20 && accuracy < 30)  (line 151)
BanDue(totalSubmissions, accuracy) == totalSubmissions >= 20 /\ accuracy < 30

\* [mutant of BannedAfter] the flag follows the latest evaluation
BannedRecomputed(wasBanned, due) == due

\* rep.isBanned after the evaluation: set when the ban is due (line 152), else kept
BannedAfter(wasBanned, due) == IF due THEN TRUE ELSE wasBanned

\* AgentOracle._updateReputation, on the reputation mapping
updateReputation(reps, agent, accurate) ==
    LET rep == reps[agent]
        accurateSubmissions ==
            IF accurate THEN rep.accurateSubmissions + 1 ELSE rep.accurateSubmissions
    IN
    IF rep.totalSubmissions >= 10
    THEN LET accuracy == (accurateSubmissions * 100) \div rep.totalSubmissions IN
         [reps EXCEPT ![agent] =
             [rep EXCEPT !.accurateSubmissions = accurateSubmissions,
                         !.isBanned = BannedAfter(rep.isBanned,
                                                  BanDue(rep.totalSubmissions, accuracy))]]
    ELSE [reps EXCEPT ![agent] = [rep EXCEPT !.accurateSubmissions = accurateSubmissions]]

\* the while loop of the insertion sort (lines 176-180); indices are 1-based here
RECURSIVE InsertKey(_, _, _)
InsertKey(prices, j, key) ==
    IF j >= 1 /\ prices[j] > key
    THEN InsertKey([prices EXCEPT ![j + 1] = prices[j]], j - 1, key)
    ELSE [prices EXCEPT ![j + 1] = key]

\* the for loop of the insertion sort (lines 173-181)
RECURSIVE SortFrom(_, _)
SortFrom(prices, i) ==
    IF i <= Len(prices)
    THEN SortFrom(InsertKey(prices, i - 1, prices[i]), i + 1)
    ELSE prices

insertionSort(prices) == SortFrom(prices, 2)

\* [mutant of medianOf] an even count takes the upper middle element
medianUpper(prices) == prices[Len(prices) \div 2 + 1]

\* the median of the sorted prices (lines 184-189)
medianOf(prices) ==
    LET count == Len(prices) IN
    IF count % 2 = 0
    THEN (prices[count \div 2] + prices[count \div 2 + 1]) \div 2
    ELSE prices[count \div 2 + 1]

\* [mutant of Accurate] a deviation of exactly the threshold is not accurate
AccurateBelowThreshold(deviation) == deviation < ACCURACY_THRESHOLD_BPS

\* bool accurate = deviation <= ACCURACY_THRESHOLD_BPS  (line 197)
Accurate(deviation) == deviation <= ACCURACY_THRESHOLD_BPS

\* the loop that updates the reputation of all submitters (lines 195-199)
RECURSIVE EvaluateFrom(_, _, _, _)
EvaluateFrom(reps, submissions, median, i) ==
    IF i <= Len(submissions)
    THEN LET deviation == calculateDeviation(submissions[i].price, median)
             accurate == Accurate(deviation)
         IN EvaluateFrom(updateReputation(reps, submissions[i].submitter, accurate),
                         submissions, median, i + 1)
    ELSE reps

\* AgentOracle._calculateConsensus
calculateConsensus(o, pair) ==
    LET feed == o.priceFeeds[pair]
        count == Len(feed.submissions)
    IN
    IF count = 0 THEN o
    ELSE LET prices == [i \in 1..count |-> feed.submissions[i].price]
             median == medianOf(insertionSort(prices))
         IN [o EXCEPT !.priceFeeds[pair].consensusPrice = median,
                      !.priceFeeds[pair].computedAt = o.now,
                      !.agentReputations =
                          EvaluateFrom(o.agentReputations, feed.submissions, median, 1)]

\* [mutant of AlreadySubmitted] the window is not searched
NeverSubmitted(submissions, sender) == FALSE

\* the duplicate check (lines 100-102)
AlreadySubmitted(submissions, sender) ==
    \E i \in 1..Len(submissions) : submissions[i].submitter = sender

\* [mutant of ConsensusDue] two submissions are enough
ConsensusDueAtTwo(submissionCount) == submissionCount >= 2

\* if (feed.submissionCount >= MIN_SUBMISSIONS)  (line 120)
ConsensusDue(submissionCount) == submissionCount >= MIN_SUBMISSIONS

\* [mutant of WindowExpired] a window stays open for ever
WindowNeverExpires(feed, timestamp) == FALSE

\* if (block.timestamp > feed.lastUpdate + SUBMISSION_WINDOW)  (line 94)
WindowExpired(feed, timestamp) == timestamp > feed.lastUpdate + SUBMISSION_WINDOW

\* function submitPrice(bytes32 pair, uint256 price) external whenNotPaused
submitPrice(o, sender, pair, price) ==
    IF o.paused
    THEN Revert(o, o, "EnforcedPause")
    ELSE IF ~validateAgent(o, sender)
    THEN Revert(o, o, "Not a valid agent")
    ELSE IF ~(price > 0)
    THEN Revert(o, o, "Invalid price")
    ELSE IF o.agentReputations[sender].isBanned
    THEN Revert(o, o, "Agent is banned")
    ELSE
    LET \* initialize new pair
        o1 == IF o.priceFeeds[pair].pair = NoPair
              THEN [o EXCEPT !.priceFeeds[pair].pair = pair,
                             !.activePairs = Append(@, pair)]
              ELSE o
        consensusPrice == o1.priceFeeds[pair].consensusPrice
    IN
    IF /\ consensusPrice > 0
       /\ calculateDeviation(price, consensusPrice) > MAX_DEVIATION_BPS
    THEN Revert(o,
                [o1 EXCEPT !.agentReputations = updateReputation(@, sender, FALSE)],
                "Price deviates too much from consensus")
    ELSE
    LET \* clear old submissions if outside window
        o2 == IF WindowExpired(o1.priceFeeds[pair], o1.now)
              THEN [o1 EXCEPT !.priceFeeds[pair].submissions = <<>>,
                              !.priceFeeds[pair].submissionCount = 0]
              ELSE o1
    IN
    IF AlreadySubmitted(o2.priceFeeds[pair].submissions, sender)
    THEN Revert(o, o2, "Already submitted")
    ELSE
    LET \* add submission, update agent reputation
        o3 == [o2 EXCEPT
                 !.priceFeeds[pair].submissions =
                     Append(@, [price |-> price, timestamp |-> o2.now,
                                submitter |-> sender]),
                 !.priceFeeds[pair].submissionCount = @ + 1,
                 !.priceFeeds[pair].lastUpdate = o2.now,
                 !.agentReputations[sender].totalSubmissions = @ + 1,
                 !.agentReputations[sender].lastSubmission = o2.now]
        due == ConsensusDue(o3.priceFeeds[pair].submissionCount)
    IN Done(IF due THEN calculateConsensus(o3, pair) ELSE o3, due)

\* function unbanAgent(address agent) external onlyOwner
unbanAgent(o, sender, agent) ==
    IF sender # OWNER
    THEN Revert(o, o, "OwnableUnauthorizedAccount")
    ELSE Done([o EXCEPT !.agentReputations[agent].isBanned = FALSE], FALSE)

\* function pause() external onlyOwner  (Pausable._pause is whenNotPaused)
pause(o, sender) ==
    IF sender # OWNER
    THEN Revert(o, o, "OwnableUnauthorizedAccount")
    ELSE IF o.paused
    THEN Revert(o, o, "EnforcedPause")
    ELSE Done([o EXCEPT !.paused = TRUE], FALSE)

\* function unpause() external onlyOwner  (Pausable._unpause is whenPaused)
unpause(o, sender) ==
    IF sender # OWNER
    THEN Revert(o, o, "OwnableUnauthorizedAccount")
    ELSE IF ~o.paused
    THEN Revert(o, o, "ExpectedPause")
    ELSE Done([o EXCEPT !.paused = FALSE], FALSE)

\* AgentRegistry.deactivateAgent
deactivateAgent(o, sender, agentAddress) ==
    IF o.agents[agentAddress].owner # sender
    THEN Revert(o, o, "Not agent owner")
    ELSE Done([o EXCEPT !.agents[agentAddress].isActive = FALSE], FALSE)

\* function getPrice(bytes32 pair) view returns (price, timestamp, isStale)
oracleGetPrice(o, pair) ==
    LET feed == o.priceFeeds[pair] IN
    [price |-> feed.consensusPrice,
     timestamp |-> feed.lastUpdate,
     isStale |-> o.now > feed.lastUpdate + MAX_PRICE_AGE]

\* function getAgentReputation(address agent) view: the accuracy it reports
reportedAccuracy(o, agent) ==
    LET rep == o.agentReputations[agent] IN
    IF rep.totalSubmissions > 0
    THEN (rep.accurateSubmissions * 100) \div rep.totalSubmissions
    ELSE 0

\* a later block: block.timestamp has advanced by `seconds`
advanceTime(o, seconds) == [o EXCEPT !.now = @ + seconds]

-----------------------------------------------------------------------------
\* a call to the oracle or the registry: function, msg.sender, pair, price, the
\* agent it names, revert reason ("" when it succeeded), whether ConsensusReached
\* was emitted
NoOracleCall ==
    [op |-> "none", caller |-> "none", pair |-> NoPair, price |-> 0, agent |-> "none",
     err |-> "", consensus |-> FALSE]

OracleCall(op, caller, pair, price, agent, result) ==
    [op |-> op, caller |-> caller, pair |-> pair, price |-> price, agent |-> agent,
     err |-> result.err, consensus |-> result.consensus]

\* the step made by a call with outcome `result`
OracleStep(call, result) ==
    /\ agents' = result.o.agents
    /\ paused' = result.o.paused
    /\ now' = result.o.now
    /\ priceFeeds' = result.o.priceFeeds
    /\ agentReputations' = result.o.agentReputations
    /\ activePairs' = result.o.activePairs
    /\ oracleLast' = call
    /\ oracleOps' = oracleOps + 1
    /\ UNCHANGED <<ammVars, coinVars, bonusVars, stakeVars>>

\* the prices submitted: none, the three of the documented example, and one far off
Prices == {0, 98, 100, 102, 1000}
\* seconds between two blocks: inside the submission window, and past it
TimeSteps == {10, 31}
\* the callers of the owner-only functions
AdminCallers == {OWNER, "a1"}

SubmitPriceCall ==
    /\ oracleOps < MaxOracleOps
    /\ \E a \in OracleAgents, p \in Pairs, x \in Prices :
           LET r == submitPrice(OracleState, a, p, x)
           IN OracleStep(OracleCall("submitPrice", a, p, x, a, r), r)

UnbanAgentCall ==
    /\ oracleOps < MaxOracleOps
    /\ \E c \in AdminCallers, a \in OracleAgents :
           LET r == unbanAgent(OracleState, c, a)
           IN OracleStep(OracleCall("unbanAgent", c, NoPair, 0, a, r), r)

PauseCall ==
    /\ oracleOps < MaxOracleOps
    /\ \E c \in AdminCallers :
           LET r == pause(OracleState, c)
           IN OracleStep(OracleCall("pause", c, NoPair, 0, "none", r), r)

UnpauseCall ==
    /\ oracleOps < MaxOracleOps
    /\ \E c \in AdminCallers :
           LET r == unpause(OracleState, c)
           IN OracleStep(OracleCall("unpause", c, NoPair, 0, "none", r), r)

DeactivateAgentCall ==
    /\ oracleOps < MaxOracleOps
    /\ \E c \in AdminCallers :
           LET r == deactivateAgent(OracleState, c, "a4")
           IN OracleStep(OracleCall("deactivateAgent", c, NoPair, 0, "a4", r), r)

AdvanceTime ==
    /\ oracleOps < MaxOracleOps
    /\ \E d \in TimeSteps :
           LET r == Done(advanceTime(OracleState, d), FALSE)
           IN OracleStep(OracleCall("advanceTime", "none", NoPair, d, "none", r), r)

-----------------------------------------------------------------------------
(* Call histories that lead to the initial states of the oracle model *)

\* the contracts as deployed: the deployer has registered the four agents
Deployed ==
    [agents |-> [a \in OracleAgents \cup {OWNER} |->
                    IF a \in OracleAgents
                    THEN [owner |-> OWNER, isActive |-> TRUE]
                    ELSE [owner |-> ZERO, isActive |-> FALSE]],
     paused |-> FALSE,
     now |-> StartTime,
     priceFeeds |-> [p \in Pairs |-> NoFeed],
     agentReputations |-> [a \in OracleAgents \cup {OWNER} |-> NoReputation],
     activePairs |-> <<>>]

Submit(a, p, x) == [f |-> "submitPrice", sender |-> a, pair |-> p, price |-> x]
NextWindow == [f |-> "advanceTime", sender |-> "none", pair |-> NoPair,
               price |-> SUBMISSION_WINDOW + 1]

\* the storage after the calls of `calls`, made in order from storage o
RECURSIVE Replay(_, _)
Replay(o, calls) ==
    IF calls = <<>> THEN o
    ELSE LET c == Head(calls)
             o1 == IF c.f = "submitPrice"
                   THEN submitPrice(o, c.sender, c.pair, c.price).o
                   ELSE advanceTime(o, c.price)
         IN Replay(o1, Tail(calls))

\* n times the calls of `calls`
RECURSIVE Repeat(_, _)
Repeat(calls, n) == IF n = 0 THEN <<>> ELSE calls \o Repeat(calls, n - 1)

\* two agents have submitted 100 and 102 for a fresh pair, in this block
TwoSubmitted ==
    Replay(Deployed, <<Submit("a1", "ETH/USD", 100), Submit("a2", "ETH/USD", 102)>>)

\* a window of ETH/USD in which a1, a2 and a3 agree on 100
AgreedWindow ==
    <<NextWindow, Submit("a1", "ETH/USD", 100), Submit("a2", "ETH/USD", 100),
      Submit("a3", "ETH/USD", 100)>>
\* a window of BTC/USD in which a1 submits alone
SoloWindow == <<NextWindow, Submit("a1", "BTC/USD", 100)>>

\* a1, a2 and a3 agreed on 100 for ETH/USD in five windows
AgreedTwice == Replay(Deployed, Repeat(AgreedWindow, 2))
AgreedFiveTimes == Replay(AgreedTwice, Repeat(AgreedWindow, 3))
\* a1 then submitted alone for BTC/USD in fourteen windows (19 submissions, 5 of
\* them accurate)
SoloSevenTimes == Replay(AgreedFiveTimes, Repeat(SoloWindow, 7))
SoloFourteenTimes == Replay(SoloSevenTimes, Repeat(SoloWindow, 7))
\* a2 and a3 have now submitted 102 in a new window of ETH/USD
Veteran ==
    Replay(SoloFourteenTimes,
           <<NextWindow, Submit("a2", "ETH/USD", 102), Submit("a3", "ETH/USD", 102)>>)

OracleIs(o) ==
    /\ agents = o.agents
    /\ paused = o.paused
    /\ now = o.now
    /\ priceFeeds = o.priceFeeds
    /\ agentReputations = o.agentReputations
    /\ activePairs = o.activePairs
    /\ oracleLast = NoOracleCall
    /\ oracleOps = 0

\* the oracle as deployed
OracleDeployed == OracleIs(Deployed)

\* the oracle as deployed, or after one of the two call histories
OracleInit ==
    \E o \in {Deployed, TwoSubmitted, Veteran} : OracleIs(o)

OracleNext ==
    \/ SubmitPriceCall
    \/ UnbanAgentCall
    \/ PauseCall
    \/ UnpauseCall
    \/ DeactivateAgentCall
    \/ AdvanceTime

-----------------------------------------------------------------------------
(* WelcomeBonus *)

\* number of calls made to WelcomeBonus and its tokens in one behaviour
MaxBonusOps == 3

\* bonusAmount = 100 ether, counted in whole THRYX (1e18 base units)
DEFAULT_BONUS == 100

\* the deployer of WelcomeBonus and of the tokens (Ownable owner of each)
BONUS_OWNER == "owner"
RELAYER == "relayer"
BonusAccounts == {BONUS_OWNER, RELAYER, "user1", "user2"}
\* two deployed instances of the token
THRYX == "thryx"
Tokens == {THRYX, "thryx2"}
\* callers of the owner-only functions
BonusAdmins == {BONUS_OWNER, "user1"}
\* newAmount of setBonusAmount
BonusAmounts == {0, 50}

NoBonusCall == [op |-> "none", caller |-> "none", who |-> "none", err |-> ""]

BonusCall(op, caller, who, err) == [op |-> op, caller |-> caller, who |-> who, err |-> err]

\* a reverted call: nothing but the history changes
BonusRevert(call) ==
    /\ bonusLast' = call
    /\ bonusOps' = bonusOps + 1
    /\ UNCHANGED <<token, bonusAmount, claimed, totalClaims, claimingEnabled, relayer,
                   minters, thryxBalance, credited>>

\* ThryxTokenV2.mint called by WelcomeBonus:
\* require(minters[msg.sender] || msg.sender == owner(), ...)
MintAuthorized == minters[token]

\* [mutant of AlreadyClaimed] the claimed flag is not consulted
NeverClaimed(user) == FALSE

\* claimed[user], as read by the two require(!claimed[...]) checks
AlreadyClaimed(user) == claimed[user]

\* the body shared by claimWelcomeBonus (lines 314-319) and claimFor (326-331):
\* the flag and the counter are written, then the token mints the bonus; a mint
\* that reverts reverts the claim
Credit(beneficiary, call) ==
    IF ~MintAuthorized
    THEN BonusRevert([call EXCEPT !.err = "ThryxToken: not authorized to mint"])
    ELSE /\ claimed' = [claimed EXCEPT ![beneficiary] = TRUE]
         /\ totalClaims' = totalClaims + 1
         /\ thryxBalance' = [thryxBalance EXCEPT ![token][beneficiary] = @ + bonusAmount]
         /\ credited' = [credited EXCEPT ![beneficiary] = @ + 1]
         /\ bonusLast' = call
         /\ bonusOps' = bonusOps + 1
         /\ UNCHANGED <<token, bonusAmount, claimingEnabled, relayer, minters>>

\* function claimWelcomeBonus()
claimWelcomeBonus(sender) ==
    LET call(err) == BonusCall("claimWelcomeBonus", sender, sender, err) IN
    IF ~claimingEnabled
    THEN BonusRevert(call("WelcomeBonus: claiming is disabled"))
    ELSE IF AlreadyClaimed(sender)
    THEN BonusRevert(call("WelcomeBonus: already claimed"))
    ELSE Credit(sender, call(""))

\* function claimFor(address beneficiary)
claimFor(sender, beneficiary) ==
    LET call(err) == BonusCall("claimFor", sender, beneficiary, err) IN
    IF ~(sender = relayer \/ sender = BONUS_OWNER)
    THEN BonusRevert(call("WelcomeBonus: not authorized"))
    ELSE IF ~claimingEnabled
    THEN BonusRevert(call("WelcomeBonus: claiming is disabled"))
    ELSE IF AlreadyClaimed(beneficiary)
    THEN BonusRevert(call("WelcomeBonus: already claimed"))
    ELSE Credit(beneficiary, call(""))

\* an owner-only setter of WelcomeBonus or of a token: `write` is its assignment
OnlyOwner(sender, call, write) ==
    IF sender # BONUS_OWNER
    THEN BonusRevert([call EXCEPT !.err = "OwnableUnauthorizedAccount"])
    ELSE /\ write
         /\ bonusLast' = call
         /\ bonusOps' = bonusOps + 1

\* function setRelayer(address _relayer) onlyOwner
setRelayer(sender, newRelayer) ==
    OnlyOwner(sender, BonusCall("setRelayer", sender, newRelayer, ""),
              /\ relayer' = newRelayer
              /\ UNCHANGED <<token, bonusAmount, claimed, totalClaims, claimingEnabled,
                             minters, thryxBalance, credited>>)

\* function setBonusAmount(uint256 newAmount) onlyOwner
setBonusAmount(sender, newAmount) ==
    OnlyOwner(sender, BonusCall("setBonusAmount", sender, "none", ""),
              /\ bonusAmount' = newAmount
              /\ UNCHANGED <<token, claimed, totalClaims, claimingEnabled, relayer,
                             minters, thryxBalance, credited>>)

\* function setClaimingEnabled(bool enabled) onlyOwner
setClaimingEnabled(sender, enabled) ==
    OnlyOwner(sender, BonusCall("setClaimingEnabled", sender, "none", ""),
              /\ claimingEnabled' = enabled
              /\ UNCHANGED <<token, bonusAmount, claimed, totalClaims, relayer,
                             minters, thryxBalance, credited>>)

\* function setToken(address newToken) onlyOwner
setToken(sender, newToken) ==
    OnlyOwner(sender, BonusCall("setToken", sender, newToken, ""),
              /\ token' = newToken
              /\ UNCHANGED <<bonusAmount, claimed, totalClaims, claimingEnabled, relayer,
                             minters, thryxBalance, credited>>)

\* ThryxTokenV2.setMinter(WelcomeBonus, authorized) onlyOwner, on the token `t`
setMinter(sender, t, authorized) ==
    OnlyOwner(sender, BonusCall("setMinter", sender, t, ""),
              /\ minters' = [minters EXCEPT ![t] = authorized]
              /\ UNCHANGED <<token, bonusAmount, claimed, totalClaims, claimingEnabled,
                             relayer, thryxBalance, credited>>)

ClaimWelcomeBonusCall ==
    /\ bonusOps < MaxBonusOps
    /\ \E u \in BonusAccounts : claimWelcomeBonus(u)
    /\ UNCHANGED <<ammVars, coinVars, oracleVars, stakeVars>>

ClaimForCall ==
    /\ bonusOps < MaxBonusOps
    /\ \E u \in BonusAccounts, b \in BonusAccounts : claimFor(u, b)
    /\ UNCHANGED <<ammVars, coinVars, oracleVars, stakeVars>>

SetRelayerCall ==
    /\ bonusOps < MaxBonusOps
    /\ \E u \in BonusAdmins, r \in {RELAYER, ZERO} : setRelayer(u, r)
    /\ UNCHANGED <<ammVars, coinVars, oracleVars, stakeVars>>

SetBonusAmountCall ==
    /\ bonusOps < MaxBonusOps
    /\ \E u \in BonusAdmins, a \in BonusAmounts : setBonusAmount(u, a)
    /\ UNCHANGED <<ammVars, coinVars, oracleVars, stakeVars>>

SetClaimingEnabledCall ==
    /\ bonusOps < MaxBonusOps
    /\ \E u \in BonusAdmins, e \in BOOLEAN : setClaimingEnabled(u, e)
    /\ UNCHANGED <<ammVars, coinVars, oracleVars, stakeVars>>

SetTokenCall ==
    /\ bonusOps < MaxBonusOps
    /\ \E u \in BonusAdmins, t \in Tokens : setToken(u, t)
    /\ UNCHANGED <<ammVars, coinVars, oracleVars, stakeVars>>

SetMinterCall ==
    /\ bonusOps < MaxBonusOps
    /\ \E u \in BonusAdmins, e \in BOOLEAN : setMinter(u, token, e)
    /\ UNCHANGED <<ammVars, coinVars, oracleVars, stakeVars>>

\* the state after the constructors of the token and of WelcomeBonus
BonusDeployed ==
    /\ token = THRYX
    /\ bonusAmount = DEFAULT_BONUS
    /\ claimed = [a \in BonusAccounts |-> FALSE]
    /\ totalClaims = 0
    /\ claimingEnabled = TRUE
    /\ relayer = ZERO
    /\ minters = [t \in Tokens |-> FALSE]
    /\ thryxBalance = [t \in Tokens |-> [a \in BonusAccounts |-> 0]]
    /\ credited = [a \in BonusAccounts |-> 0]
    /\ bonusLast = NoBonusCall
    /\ bonusOps = 0

\* the state after the deployment of the tests: the constructors, then
\* thryxToken.setMinter(welcomeBonus, true) and welcomeBonus.setRelayer(relayer)
BonusSetUp ==
    /\ token = THRYX
    /\ bonusAmount = DEFAULT_BONUS
    /\ claimed = [a \in BonusAccounts |-> FALSE]
    /\ totalClaims = 0
    /\ claimingEnabled = TRUE
    /\ relayer = RELAYER
    /\ minters = [t \in Tokens |-> t = THRYX]
    /\ thryxBalance = [t \in Tokens |-> [a \in BonusAccounts |-> 0]]
    /\ credited = [a \in BonusAccounts |-> 0]
    /\ bonusLast = NoBonusCall
    /\ bonusOps = 0

BonusInit == BonusDeployed \/ BonusSetUp

BonusNext ==
    \/ ClaimWelcomeBonusCall
    \/ ClaimForCall
    \/ SetRelayerCall
    \/ SetBonusAmountCall
    \/ SetClaimingEnabledCall
    \/ SetTokenCall
    \/ SetMinterCall

-----------------------------------------------------------------------------
(* ThryxToken: staking, delegation and rewards *)

\* amounts are in units of 10^6 THRYX (10^24 base units)
MAX_SUPPLY == 1000
epochDuration == 604800

\* the deployer, who is the owner and receives MAX_SUPPLY
TOKEN_OWNER == "deployer"
\* address(this)
THRYX_TOKEN == "ThryxToken"
Stakers == {"alice", "bob"}
TokenCallers == Stakers \cup {TOKEN_OWNER}
TokenAccounts == TokenCallers \cup {THRYX_TOKEN}
TokenAddresses == TokenCallers \cup {ZERO}

StakeState ==
    [balanceOf |-> balanceOf, stakedBalance |-> stakedBalance,
     stakeTimestamp |-> stakeTimestamp, delegates |-> delegates,
     delegatedVotes |-> delegatedVotes, rewardRate |-> rewardRate,
     lastRewardClaim |-> lastRewardClaim, totalStaked |-> totalStaked,
     totalDelegated |-> totalDelegated, stakersCount |-> stakersCount,
     blockTime |-> blockTime]

\* the outcome of a call: the storage it leaves and the revert reason
Staked(t) == [t |-> t, err |-> ""]
StakeReverted(t, reason) == [t |-> t, err |-> reason]

\* ERC20._transfer(from, to, amount)
TransferInternal(t, from, to, amount) ==
    IF t.balanceOf[from] < amount
    THEN StakeReverted(t, "ERC20InsufficientBalance")
    ELSE Staked([t EXCEPT !.balanceOf =
                    [a \in TokenAccounts |->
                        (IF a = from THEN t.balanceOf[a] - amount ELSE t.balanceOf[a])
                        + (IF a = to THEN amount ELSE 0)]])

\* function pendingRewards(address user) public view
pendingRewards(t, user) ==
    IF t.stakedBalance[user] = 0 THEN 0
    ELSE LET lastClaim == IF t.lastRewardClaim[user] = 0
                          THEN t.stakeTimestamp[user]
                          ELSE t.lastRewardClaim[user]
             elapsed == t.blockTime - lastClaim
             epochs == elapsed \div epochDuration
         IN IF epochs = 0 THEN 0
            ELSE (t.stakedBalance[user] * t.rewardRate * epochs) \div 10000

\* function _claimRewards(address user) internal
ClaimRewardsInternal(t, user) ==
    LET reward == pendingRewards(t, user) IN
    IF reward > 0
    THEN LET t1 == [t EXCEPT !.lastRewardClaim[user] = t.blockTime]
         IN IF t1.balanceOf[THRYX_TOKEN] >= reward
            THEN TransferInternal(t1, THRYX_TOKEN, user, reward).t
            ELSE t1
    ELSE t

\* function _updateVotingPower(address user, uint256 amount, bool isStaking) internal
UpdateVotingPower(t, user, amount, isStaking) ==
    LET delegatee == t.delegates[user] IN
    IF delegatee # ZERO
    THEN IF isStaking
         THEN [t EXCEPT !.delegatedVotes[delegatee] = @ + amount,
                        !.totalDelegated = @ + amount]
         ELSE [t EXCEPT !.delegatedVotes[delegatee] = @ - amount,
                        !.totalDelegated = @ - amount]
    ELSE t

\* function stake(uint256 amount) external nonReentrant
stake(t, sender, amount) ==
    IF amount = 0 THEN StakeReverted(t, "Cannot stake 0")
    ELSE IF t.balanceOf[sender] < amount THEN StakeReverted(t, "Insufficient balance")
    ELSE LET t1 == IF t.stakedBalance[sender] > 0
                   THEN ClaimRewardsInternal(t, sender)
                   ELSE t
             moved == TransferInternal(t1, sender, THRYX_TOKEN, amount)
             t2 == moved.t
             t3 == [t2 EXCEPT !.stakersCount =
                                  IF t2.stakedBalance[sender] = 0 THEN @ + 1 ELSE @,
                              !.stakedBalance[sender] = @ + amount,
                              !.stakeTimestamp[sender] = t2.blockTime,
                              !.totalStaked = @ + amount]
         IN IF moved.err # "" THEN StakeReverted(t, moved.err)
            ELSE Staked(UpdateVotingPower(t3, sender, amount, TRUE))

\* function unstake(uint256 amount) external nonReentrant
unstake(t, sender, amount) ==
    IF amount = 0 THEN StakeReverted(t, "Cannot unstake 0")
    ELSE IF t.stakedBalance[sender] < amount
    THEN StakeReverted(t, "Insufficient staked balance")
    ELSE LET t1 == ClaimRewardsInternal(t, sender)
             t2 == [t1 EXCEPT !.stakedBalance[sender] = @ - amount,
                              !.stakersCount =
                                  IF t1.stakedBalance[sender] = amount THEN @ - 1 ELSE @,
                              !.totalStaked = @ - amount]
             t3 == UpdateVotingPower(t2, sender, amount, FALSE)
             moved == TransferInternal(t3, THRYX_TOKEN, sender, amount)
         IN IF moved.err # "" THEN StakeReverted(t, moved.err)
            ELSE Staked(moved.t)

\* function delegate(address delegatee) external
delegate(t, sender, delegatee) ==
    IF delegatee = ZERO THEN StakeReverted(t, "Cannot delegate to zero address")
    ELSE LET currentDelegate == t.delegates[sender]
             voterStake == t.stakedBalance[sender]
             t1 == IF currentDelegate # ZERO /\ voterStake > 0
                   THEN [t EXCEPT !.delegatedVotes[currentDelegate] = @ - voterStake,
                                  !.totalDelegated = @ - voterStake]
                   ELSE t
             t2 == [t1 EXCEPT !.delegates[sender] = delegatee]
         IN Staked(IF voterStake > 0
                   THEN [t2 EXCEPT !.delegatedVotes[delegatee] = @ + voterStake,
                                   !.totalDelegated = @ + voterStake]
                   ELSE t2)

\* function claimRewards() external nonReentrant
claimRewards(t, sender) == Staked(ClaimRewardsInternal(t, sender))

\* function setRewardRate(uint256 newRate) external onlyOwner
setRewardRate(t, sender, newRate) ==
    IF sender # TOKEN_OWNER THEN StakeReverted(t, "OwnableUnauthorizedAccount")
    ELSE IF newRate > 1000 THEN StakeReverted(t, "Rate too high")
    ELSE Staked([t EXCEPT !.rewardRate = newRate])

\* ERC20.transfer(to, amount) called by `sender`
transfer(t, sender, to, amount) == TransferInternal(t, sender, to, amount)

\* a later block of the chain ThryxToken is on
laterBlock(t, seconds) == Staked([t EXCEPT !.blockTime = @ + seconds])

-----------------------------------------------------------------------------
\* a call to ThryxToken: function, msg.sender, the address and the amount it names,
\* revert reason ("" when it succeeded)
NoStakeCall == [op |-> "none", caller |-> "none", to |-> "none", amount |-> 0, err |-> ""]

StakeCallOf(op, caller, to, amount, result) ==
    [op |-> op, caller |-> caller, to |-> to, amount |-> amount, err |-> result.err]

\* the step made by a call with outcome `result`; a reverted call leaves storage as
\* it was
StakeStep(call, result) ==
    /\ balanceOf' = result.t.balanceOf
    /\ stakedBalance' = result.t.stakedBalance
    /\ stakeTimestamp' = result.t.stakeTimestamp
    /\ delegates' = result.t.delegates
    /\ delegatedVotes' = result.t.delegatedVotes
    /\ rewardRate' = result.t.rewardRate
    /\ lastRewardClaim' = result.t.lastRewardClaim
    /\ totalStaked' = result.t.totalStaked
    /\ totalDelegated' = result.t.totalDelegated
    /\ stakersCount' = result.t.stakersCount
    /\ blockTime' = result.t.blockTime
    /\ stakeLast' = call
    /\ stakeOps' = stakeOps + 1
    /\ UNCHANGED <<ammVars, coinVars, oracleVars, bonusVars>>

\* the amounts staked, unstaked and transferred: 0 (rejected), and two amounts whose
\* reward for one epoch is non-zero
StakeAmounts == {0, 100, 300}
\* newRate of setRewardRate: no rewards, and above the maximum
RewardRates == {0, 1001}
\* seconds between two blocks: less than an epoch, and one epoch
EpochSteps == {epochDuration \div 2, epochDuration}

StakeCall ==
    /\ stakeOps < MaxStakeOps
    /\ \E u \in Stakers, a \in StakeAmounts :
           LET r == stake(StakeState, u, a)
           IN StakeStep(StakeCallOf("stake", u, "none", a, r), r)

UnstakeCall ==
    /\ stakeOps < MaxStakeOps
    /\ \E u \in Stakers, a \in StakeAmounts :
           LET r == unstake(StakeState, u, a)
           IN StakeStep(StakeCallOf("unstake", u, "none", a, r), r)

ClaimRewardsCall ==
    /\ stakeOps < MaxStakeOps
    /\ \E u \in Stakers :
           LET r == claimRewards(StakeState, u)
           IN StakeStep(StakeCallOf("claimRewards", u, "none", 0, r), r)

DelegateCall ==
    /\ stakeOps < MaxStakeOps
    /\ \E u \in Stakers, d \in {ZERO, "bob"} :
           LET r == delegate(StakeState, u, d)
           IN StakeStep(StakeCallOf("delegate", u, d, 0, r), r)

SetRewardRateCall ==
    /\ stakeOps < MaxStakeOps
    /\ \E u \in {TOKEN_OWNER, "alice"}, x \in RewardRates :
           LET r == setRewardRate(StakeState, u, x)
           IN StakeStep(StakeCallOf("setRewardRate", u, "none", x, r), r)

TransferCall ==
    /\ stakeOps < MaxStakeOps
    /\ \E u \in TokenCallers, to \in {"alice", THRYX_TOKEN}, a \in {100} :
           LET r == transfer(StakeState, u, to, a)
           IN StakeStep(StakeCallOf("transfer", u, to, a, r), r)

LaterBlock ==
    /\ stakeOps < MaxStakeOps
    /\ \E d \in EpochSteps :
           LET r == laterBlock(StakeState, d)
           IN StakeStep(StakeCallOf("laterBlock", "none", "none", d, r), r)

\* the storage record is the current state
StakeIs(t) ==
    /\ balanceOf = t.balanceOf
    /\ stakedBalance = t.stakedBalance
    /\ stakeTimestamp = t.stakeTimestamp
    /\ delegates = t.delegates
    /\ delegatedVotes = t.delegatedVotes
    /\ rewardRate = t.rewardRate
    /\ lastRewardClaim = t.lastRewardClaim
    /\ totalStaked = t.totalStaked
    /\ totalDelegated = t.totalDelegated
    /\ stakersCount = t.stakersCount
    /\ blockTime = t.blockTime
    /\ stakeLast = NoStakeCall
    /\ stakeOps = 0

\* storage after the constructor: the whole supply is minted to the deployer
Constructed ==
    [balanceOf |-> [a \in TokenAccounts |-> IF a = TOKEN_OWNER THEN MAX_SUPPLY ELSE 0],
     stakedBalance |-> [a \in TokenCallers |-> 0],
     stakeTimestamp |-> [a \in TokenCallers |-> 0],
     delegates |-> [a \in TokenCallers |-> ZERO],
     delegatedVotes |-> [a \in TokenCallers |-> 0],
     rewardRate |-> 100,
     lastRewardClaim |-> [a \in TokenCallers |-> 0],
     totalStaked |-> 0,
     totalDelegated |-> 0,
     stakersCount |-> 0,
     blockTime |-> StartTime]

\* the deployer has transferred 300 to each of alice and bob
Distributed ==
    transfer(transfer(Constructed, TOKEN_OWNER, "alice", 300).t,
             TOKEN_OWNER, "bob", 300).t

TokenDeployed == StakeIs(Constructed)
TokenDistributed == StakeIs(Distributed)

StakeInit == TokenDeployed \/ TokenDistributed

StakeNext ==
    \/ StakeCall
    \/ UnstakeCall
    \/ ClaimRewardsCall
    \/ DelegateCall
    \/ SetRewardRateCall
    \/ TransferCall
    \/ LaterBlock

-----------------------------------------------------------------------------
\* the pool alone: the coin and the oracle stay as deployed
InitAMM ==
    /\ AmmInit
    /\ CoinInit
    /\ protocolTreasury = TREASURY
    /\ OracleDeployed
    /\ BonusDeployed
    /\ TokenDeployed

SpecAMM == InitAMM /\ [][AmmNext]_vars

\* the pool of the test fixture
InitAmmExample ==
    /\ ExampleInit
    /\ CoinInit
    /\ protocolTreasury = TREASURY
    /\ OracleDeployed
    /\ BonusDeployed
    /\ TokenDeployed

SpecAmmExample == InitAmmExample /\ [][AmmExampleNext]_vars

\* the pool and its views
SpecAmmViews == InitAMM /\ [][AmmViewNext]_vars

\* the coin alone, deployed with or without a treasury: the pool stays as deployed
InitCoin ==
    /\ AmmInit
    /\ CoinInit
    /\ OracleDeployed
    /\ BonusDeployed
    /\ TokenDeployed

SpecCoin == InitCoin /\ [][CoinNext]_vars

\* the oracle alone: the pool and the coin stay as deployed
InitOracle ==
    /\ AmmInit
    /\ CoinInit
    /\ protocolTreasury = TREASURY
    /\ OracleInit
    /\ BonusDeployed
    /\ TokenDeployed

SpecOracle == InitOracle /\ [][OracleNext]_vars

\* the bonus alone: the pool, the coin and the oracle stay as deployed
InitBonus ==
    /\ AmmInit
    /\ CoinInit
    /\ protocolTreasury = TREASURY
    /\ OracleDeployed
    /\ BonusInit
    /\ TokenDeployed

SpecBonus == InitBonus /\ [][BonusNext]_vars

\* ThryxToken alone
InitStake ==
    /\ AmmInit
    /\ CoinInit
    /\ protocolTreasury = TREASURY
    /\ OracleDeployed
    /\ BonusDeployed
    /\ StakeInit

SpecStake == InitStake /\ [][StakeNext]_vars

-----------------------------------------------------------------------------
(* Properties of SimpleAMM (checked under SpecAMM) *)

\* the step is a call `op` to the pool that succeeded
AmmDid(op) == ammLast'.op = op /\ ammLast'.err = ""

\* the reserve of the token a swap of `tok` takes in / pays out
ReserveInOf(tok) == IF tok = "A" THEN reserveA ELSE reserveB
ReserveOutOf(tok) == IF tok = "A" THEN reserveB ELSE reserveA

\* the same reserves after the step
ReserveInNext(tok) == IF tok = "A" THEN reserveA' ELSE reserveB'
ReserveOutNext(tok) == IF tok = "A" THEN reserveB' ELSE reserveA'

PoolUnchanged ==
    UNCHANGED <<reserveA, reserveB, totalFeesA, totalFeesB, lpBalance, balA, balB>>

\* C1: every successful swap leaves reserveA * reserveB strictly greater than before
\* the call, and every successful addLiquidity leaves it greater than or equal.
C1_ConstantProduct ==
    [][ /\ AmmDid("swap") => reserveA' * reserveB' > reserveA * reserveB
        /\ AmmDid("addLiquidity") => reserveA' * reserveB' >= reserveA * reserveB
      ]_vars

\* a swap that paid out tokens has just followed a deposit into the pool
C1_Witness ==
    /\ ammLast.op = "swap" /\ ammLast.err = "" /\ ammLast.out1 > 0
    /\ ammPrev.op = "addLiquidity"
    /\ reserveA * reserveB > 0

\* C2: when addLiquidity(a, b) mints s shares and the same provider's next call
\* removeLiquidity(s) succeeds, the amounts returned are <= a and <= b, and the
\* reserves stay >= 0.
C2_RoundTrip ==
    (/\ ammLast.op = "removeLiquidity" /\ ammLast.err = ""
     /\ ammPrev.op = "addLiquidity"
     /\ ammPrev.caller = ammLast.caller
     /\ ammPrev.liq = ammLast.liq)
    => /\ ammLast.out1 <= ammPrev.a
       /\ ammLast.out2 <= ammPrev.b
       /\ reserveA >= 0
       /\ reserveB >= 0

\* a provider joined a pool that other providers hold shares of, took the shares
\* straight out again and got less of one token than was put in
C2_Witness ==
    /\ ammLast.op = "removeLiquidity" /\ ammLast.err = ""
    /\ ammPrev.op = "addLiquidity"
    /\ ammPrev.caller = ammLast.caller
    /\ ammPrev.liq = ammLast.liq
    /\ totalSupply > 0
    /\ (ammLast.out1 < ammPrev.a \/ ammLast.out2 < ammPrev.b)

\* C3 (as claimed): every successful swap strictly increases the reserve of the
\* input token and strictly decreases the reserve of the output token.
C3_StrictBothWays ==
    [][ AmmDid("swap") =>
            /\ ReserveInNext(ammLast'.tok) > ReserveInOf(ammLast'.tok)
            /\ ReserveOutNext(ammLast'.tok) < ReserveOutOf(ammLast'.tok)
      ]_vars

\* C3 (amended): every successful swap strictly increases the reserve of the input
\* token (by amountIn) and never increases the reserve of the output token, which
\* strictly decreases exactly when amountOut > 0.
C3_SwapDirection ==
    [][ AmmDid("swap") =>
            /\ ReserveInNext(ammLast'.tok) = ReserveInOf(ammLast'.tok) + ammLast'.a
            /\ ReserveInNext(ammLast'.tok) > ReserveInOf(ammLast'.tok)
            /\ ReserveOutNext(ammLast'.tok) <= ReserveOutOf(ammLast'.tok)
            /\ (ReserveOutNext(ammLast'.tok) < ReserveOutOf(ammLast'.tok)
                    <=> ammLast'.out1 > 0)
      ]_vars

\* a swap succeeded although its output rounded down to 0
C3_Witness ==
    /\ ammLast.op = "swap" /\ ammLast.err = ""
    /\ ammLast.a > 0
    /\ ammLast.out1 = 0
    /\ ReserveOutOf(ammLast.tok) > 0

\* C4: a swap whose computed amountOut is less than minAmountOut fails with
\* "Slippage exceeded" and leaves reserves, fee counters, LP balances and token
\* balances as before.  (The computed amountOut exists once the call has passed
\* its argument checks and pulled amountIn from the caller.)
C4_Slippage ==
    [][ LET c == ammLast'
            rIn == ReserveInOf(c.tok)
            rOut == ReserveOutOf(c.tok)
            balIn == IF c.tok = "A" THEN balA[c.caller] ELSE balB[c.caller]
        IN (/\ c.op = "swap"
            /\ c.a > 0
            /\ c.tok \in {"A", "B"}
            /\ balIn >= c.a
            /\ (c.a * 997 * rOut) \div (rIn * 1000 + c.a * 997) < c.m)
           => /\ c.err = "Slippage exceeded"
              /\ PoolUnchanged
      ]_vars

\* a swap with a non-zero output was refused for slippage
C4_Witness ==
    /\ ammLast.op = "swap"
    /\ ammLast.err = "Slippage exceeded"
    /\ ammLast.out1 > 0
    /\ ammLast.out1 < ammLast.m

\* C21: a successful addLiquidity(a, b), a, b > 0, mints to the caller
\* s = floor(sqrt(a*b)) shares (s*s <= a*b < (s+1)*(s+1)) when the LP supply is 0,
\* and otherwise s = min(floor(a*totalShares/reserveA), floor(b*totalShares/reserveB));
\* it increases reserveA by exactly a and reserveB by exactly b.
C21_ShareMinting ==
    /\ [](ammOps = 0 =>
            \A y \in 0..MaxRoot : sqrt(y) * sqrt(y) <= y /\ y < (sqrt(y) + 1) * (sqrt(y) + 1))
    /\ [][ AmmDid("addLiquidity") =>
            LET c == ammLast'
                s == lpBalance'[c.caller] - lpBalance[c.caller]
            IN /\ c.a > 0 /\ c.b > 0
               /\ s = c.liq
               /\ \A u \in AmmUsers \ {c.caller} : lpBalance'[u] = lpBalance[u]
               /\ totalSupply = 0 => (s * s <= c.a * c.b /\ c.a * c.b < (s + 1) * (s + 1))
               /\ totalSupply # 0 =>
                     s = Min((c.a * totalSupply) \div reserveA,
                             (c.b * totalSupply) \div reserveB)
               /\ reserveA' = reserveA + c.a
               /\ reserveB' = reserveB + c.b
         ]_vars

\* the first deposit, whose product is not a square, was followed by a deposit that
\* was paid in proportion to the shares outstanding
C21_Witness ==
    /\ ammOps = 2
    /\ ammPrev.op = "addLiquidity" /\ ammPrev.a = 350 /\ ammPrev.b = 700
    /\ ammPrev.liq = 494
    /\ ammLast.op = "addLiquidity" /\ ammLast.err = ""
    /\ ammLast.a = 700 /\ ammLast.b = 350
    /\ ammLast.liq = 247

\* C22: addLiquidity fails when either amount is 0 or the computed shares are 0;
\* removeLiquidity fails when shares = 0, when the caller holds fewer LP tokens, or
\* when either computed withdrawal is 0; every failed call of the two leaves
\* reserves, LP balances, LP supply and token balances unchanged.
C22_LiquidityFailures ==
    [][ LET c == ammLast' IN
        /\ (c.op = "addLiquidity" /\ (c.a = 0 \/ c.b = 0)) => c.err # ""
        /\ ( /\ c.op = "addLiquidity" /\ c.a > 0 /\ c.b > 0
             /\ balA[c.caller] >= c.a /\ balB[c.caller] >= c.b
             /\ totalSupply > 0 /\ reserveA > 0 /\ reserveB > 0
             /\ Min((c.a * totalSupply) \div reserveA,
                    (c.b * totalSupply) \div reserveB) = 0 )
           => c.err = "Insufficient liquidity minted"
        /\ (c.op = "removeLiquidity" /\ (c.liq = 0 \/ lpBalance[c.caller] < c.liq))
           => c.err # ""
        /\ ( /\ c.op = "removeLiquidity" /\ c.liq > 0 /\ lpBalance[c.caller] >= c.liq
             /\ \/ (c.liq * reserveA) \div totalSupply = 0
                \/ (c.liq * reserveB) \div totalSupply = 0 )
           => c.err = "Insufficient liquidity burned"
        /\ (c.op \in {"addLiquidity", "removeLiquidity"} /\ c.err # "")
           => /\ PoolUnchanged
              /\ totalSupply' = totalSupply
      ]_vars

\* a deposit too small to earn one share of a seeded pool was refused, after both
\* tokens had been pulled from the caller
C22_Witness ==
    /\ ammLast.op = "addLiquidity"
    /\ ammLast.err = "Insufficient liquidity minted"
    /\ ammLast.a > 0 /\ ammLast.b > 0
    /\ balA[ammLast.caller] >= ammLast.a /\ balB[ammLast.caller] >= ammLast.b
    /\ reserveA > 0 /\ reserveB > 0

\* C23: the amountOut of a successful swap equals getAmountOut(tokenIn, amountIn)
\* evaluated in the state before the swap, which is
\* floor(amountIn*997*reserveOut / (reserveIn*1000 + amountIn*997)); the trader
\* receives that amount; getAmountOut and getPrice change no state.
C23_QuoteMatchesSwap ==
    [][ LET c == ammLast'
            rIn == ReserveInOf(c.tok)
            rOut == ReserveOutOf(c.tok)
            received == IF c.tok = "A" THEN balB'[c.caller] - balB[c.caller]
                        ELSE balA'[c.caller] - balA[c.caller]
        IN /\ AmmDid("swap") =>
                /\ c.out1 = getAmountOut(c.tok, c.a)
                /\ c.out1 = (c.a * 997 * rOut) \div (rIn * 1000 + c.a * 997)
                /\ received = c.out1
                /\ ( /\ ammLast.op = "getAmountOut" /\ ammLast.err = ""
                     /\ ammLast.tok = c.tok /\ ammLast.a = c.a )
                   => c.out1 = ammLast.out1
           /\ c.op \in {"getAmountOut", "getPrice"} =>
                /\ PoolUnchanged
                /\ totalSupply' = totalSupply
                /\ getPrice' = getPrice
      ]_vars

\* a quote taken on a seeded pool was followed by the swap it quoted, in the
\* direction tokenB -> tokenA, and the trader received the quoted non-zero amount
C23_Witness ==
    /\ ammOps = 3
    /\ ammPrev.op = "getAmountOut" /\ ammPrev.tok = "B" /\ ammPrev.a = 350
    /\ ammPrev.out1 = 349
    /\ ammLast.op = "swap" /\ ammLast.err = ""
    /\ ammLast.tok = "B" /\ ammLast.a = 350
    /\ ammLast.out1 = 349
    /\ reserveA = 700 - 349 /\ reserveB = 350 + 350

\* C24: swap fails with "Insufficient liquidity" whenever the computed amountOut is
\* >= the output reserve (once the slippage check, which comes first, has passed),
\* in particular on a pool with zero reserves; no successful swap leaves the output
\* reserve at zero.
C24_DrainGuard ==
    [][ LET c == ammLast'
            rIn == ReserveInOf(c.tok)
            rOut == ReserveOutOf(c.tok)
            balIn == IF c.tok = "A" THEN balA[c.caller] ELSE balB[c.caller]
        IN /\ ( /\ c.op = "swap"
                /\ c.a > 0
                /\ c.tok \in {"A", "B"}
                /\ balIn >= c.a
                /\ (c.a * 997 * rOut) \div (rIn * 1000 + c.a * 997) >= rOut )
              => /\ c.err # ""
                 /\ (c.a * 997 * rOut) \div (rIn * 1000 + c.a * 997) >= c.m
                       => c.err = "Insufficient liquidity"
                 /\ PoolUnchanged
           /\ AmmDid("swap") => ReserveOutNext(c.tok) > 0
      ]_vars

\* a swap into a pool that providers had seeded and emptied again was refused
C24_Witness ==
    /\ ammLast.op = "swap"
    /\ ammLast.err = "Insufficient liquidity"
    /\ ammLast.a > 0
    /\ reserveA = 0 /\ reserveB = 0
    /\ balA["alice"] + balA["bob"] = 2 * InitBal
    /\ ammOps = 3

\* C25: on a pool seeded by addLiquidity(10000 USDC, 10 WETH),
\* swap(tokenA, 100 USDC, 0) by a trader who holds the 100 USDC succeeds with
\* 0 < amountOut < 1 WETH, and the trader's tokenB balance increases by exactly
\* amountOut.
C25_SwapExample ==
    [][ LET c == ammLast' IN
        ( /\ c.op = "swap" /\ c.tok = "A" /\ c.a = 100 /\ c.m = 0
          /\ balA[c.caller] >= 100
          /\ ammLast.op = "addLiquidity" /\ ammLast.err = ""
          /\ reserveA = INITIAL_USDC /\ reserveB = INITIAL_WETH )
        => /\ c.err = ""
           /\ 0 < c.out1 /\ c.out1 < ONE_WETH
           /\ balB'[c.caller] = balB[c.caller] + c.out1
           /\ balB'[AMM] = balB[AMM] - c.out1
      ]_vars

\* user1 swapped 100 USDC right after the owner seeded the pool
C25_Witness ==
    /\ ammOps = 2
    /\ ammPrev.op = "addLiquidity" /\ ammPrev.caller = "alice"
    /\ ammPrev.a = INITIAL_USDC /\ ammPrev.b = INITIAL_WETH
    /\ ammLast.op = "swap" /\ ammLast.err = "" /\ ammLast.caller = "bob"
    /\ ammLast.tok = "A" /\ ammLast.a = 100 /\ ammLast.m = 0
    /\ balB["bob"] = TRADER_WETH + ammLast.out1
    /\ ammLast.out1 = 9

\* C32: each successful swap adds exactly floor(amountIn * 3 / 1000) to the fee
\* counter of the input token and leaves the other counter unchanged; addLiquidity,
\* removeLiquidity and failed calls leave both counters unchanged; neither counter
\* ever decreases.
C32_FeeCounters ==
    [][ LET c == ammLast'
            fee == (c.a * 3) \div 1000
        IN /\ (AmmDid("swap") /\ c.tok = "A") =>
                 (totalFeesA' = totalFeesA + fee /\ totalFeesB' = totalFeesB)
           /\ (AmmDid("swap") /\ c.tok = "B") =>
                 (totalFeesB' = totalFeesB + fee /\ totalFeesA' = totalFeesA)
           /\ ~AmmDid("swap") => UNCHANGED <<totalFeesA, totalFeesB>>
           /\ totalFeesA' >= totalFeesA
           /\ totalFeesB' >= totalFeesB
      ]_vars

\* swaps in both directions have left a fee in each counter, and a swap too small
\* for a fee has left them as they were
C32_Witness ==
    /\ ammLast.op = "swap" /\ ammLast.err = "" /\ ammLast.a = 1
    /\ totalFeesA + totalFeesB = 2
    /\ ammOps = 3

\* C33: in every reachable state the LP total supply is > 0 if and only if
\* reserveA > 0 and reserveB > 0, and both reserves are 0 when no shares exist; the
\* proportional formulas of addLiquidity and removeLiquidity never divide by zero.
C33_SharesIffReserves ==
    /\ (totalSupply > 0) <=> (reserveA > 0 /\ reserveB > 0)
    /\ totalSupply = 0 => (reserveA = 0 /\ reserveB = 0)
    /\ ammLast.err # "Panic: division by zero"

\* all the shares of a pool that had been traded on were withdrawn
C33_Witness ==
    /\ ammLast.op = "removeLiquidity" /\ ammLast.err = ""
    /\ totalSupply = 0
    /\ reserveA = 0 /\ reserveB = 0
    /\ totalFeesA + totalFeesB > 0

\* exact comparison p*q >= r*s of products too large for one machine integer:
\* both are written in base 1000 and compared digit by digit
ProductDigits(p, q) ==
    LET p1 == p \div 1000
        p0 == p % 1000
        q1 == q \div 1000
        q0 == q % 1000
        d0 == p0 * q0
        d1 == p1 * q0 + p0 * q1 + d0 \div 1000
        d2 == p1 * q1 + d1 \div 1000
    IN <<d2, d1 % 1000, d0 % 1000>>

ProductGeq(p, q, r, s) ==
    LET x == ProductDigits(p, q)
        y == ProductDigits(r, s)
    IN \/ x[1] > y[1]
       \/ x[1] = y[1] /\ x[2] > y[2]
       \/ x[1] = y[1] /\ x[2] = y[2] /\ x[3] >= y[3]

\* C34: every successful addLiquidity, removeLiquidity or swap that takes the pool
\* from (reserveA, reserveB, L) to (reserveA', reserveB', L') with L > 0 and L' > 0
\* has reserveA' * reserveB' * L * L >= reserveA * reserveB * L' * L'.
C34_ShareValue ==
    [][ (ammLast'.err = "" /\ ammLast'.op \in {"addLiquidity", "removeLiquidity", "swap"}
         /\ totalSupply > 0 /\ totalSupply' > 0)
        => ProductGeq(reserveA' * reserveB', totalSupply * totalSupply,
                      reserveA * reserveB, totalSupply' * totalSupply')
      ]_vars

\* part of the shares of a pool that was not seeded in round numbers was withdrawn,
\* and the withdrawal was rounded down
C34_Witness ==
    /\ ammLast.op = "removeLiquidity" /\ ammLast.err = ""
    /\ totalSupply > 0
    /\ (ammLast.liq * (reserveA + ammLast.out1)) % (totalSupply + ammLast.liq) # 0

\* C35: after any sequence of successful and failed addLiquidity, removeLiquidity
\* and swap calls the pool's tokenA balance equals reserveA and its tokenB balance
\* equals reserveB.
C35_ReserveBacking ==
    /\ balA[AMM] = reserveA
    /\ balB[AMM] = reserveB

\* the pool holds what its reserves say after a deposit, a swap that paid a fee and
\* a failed call
C35_Witness ==
    /\ ammOps = 3
    /\ ammLast.err # ""
    /\ totalFeesA > 0
    /\ reserveA > 0 /\ balA[AMM] = reserveA
    /\ reserveB > 0 /\ balB[AMM] = reserveB

-----------------------------------------------------------------------------
(* Properties of CreatorCoin (checked under SpecCoin) *)

\* the step is a call `op` to the coin that succeeded
CoinDid(op) == coinLast'.op = op /\ coinLast'.err = ""

\* getCurrentPrice() after the step
CurrentPriceNext == CurrentPriceAt(coinSupply', priceFloor')

CoinUnchanged ==
    UNCHANGED <<coinBalance, priceFloor, allTimeHigh, totalEthLocked, totalVolume,
                totalTrades, ethBal>>

\* C5: in every state reachable by buy, sell and setPriceFloor,
\* getCurrentPrice() >= priceFloor.
C5_PriceAtLeastFloor == getCurrentPrice >= priceFloor

\* tokens are in circulation on a curve that lies below the floor set by the owner
C5_Witness ==
    /\ coinSupply > 0
    /\ coinLast.op \in {"buy", "sell"} /\ coinLast.err = ""
    /\ priceFloor > BASE_PRICE
    /\ getCurrentPrice = priceFloor

\* the supplies at which the price function is tabulated: a grid, and the supply
\* in circulation
Supplies == {k * ProbeStep : k \in 0..MaxProbe} \cup {coinSupply}

\* C6: for a fixed priceFloor, for all supplies s1 < s2 the price at s1 is <= the
\* price at s2 (getCurrentPrice, and calculatePrice for the quadratic curve);
\* a successful buy never lowers getCurrentPrice() and a successful sell never
\* raises it.
C6_Monotone ==
    /\ [](\A s1 \in Supplies : \A s2 \in Supplies :
            s1 < s2 =>
              /\ CurrentPriceAt(s1, priceFloor) <= CurrentPriceAt(s2, priceFloor)
              /\ calculatePriceQuadratic(s1, BASE_PRICE, GROWTH_FACTOR, priceFloor)
                   <= calculatePriceQuadratic(s2, BASE_PRICE, GROWTH_FACTOR, priceFloor))
    /\ [][ /\ CoinDid("buy") => CurrentPriceNext >= getCurrentPrice
           /\ CoinDid("sell") => CurrentPriceNext <= getCurrentPrice
         ]_vars

\* a sell brought the price down from the height a buy had taken it to, with a
\* floor in force
C6_Witness ==
    /\ coinLast.op = "sell" /\ coinLast.err = ""
    /\ priceFloor > BASE_PRICE
    /\ getCurrentPrice > priceFloor
    /\ getCurrentPrice < allTimeHigh

\* C7 (as claimed): across any sequence of operations a coin's priceFloor never
\* decreases (a setPriceFloor call with a lower floor is rejected).
C7_FloorNeverDecreases == [][priceFloor' >= priceFloor]_vars

\* the ETH balances a successful buy of `v` by `u` must leave, with the protocol fee
\* going to `feeTo` (ZERO: it stays in the contract)
EthAfterBuy(u, v, feeTo) ==
    LET cf == (v * 500) \div 10000
        pf == (v * 100) \div 10000
    IN [a \in CoinAccounts |->
          ethBal[a]
          - (IF a = u THEN v ELSE 0)
          + (IF a = CREATOR THEN cf ELSE 0)
          + (IF a = feeTo THEN pf ELSE 0)
          + (IF a = COIN THEN v - cf - (IF feeTo = ZERO THEN 0 ELSE pf) ELSE 0)]

\* the state a successful buy must leave, apart from the ETH balances
BuyMintsAndLocks(c) ==
    LET v == c.x
        cf == (v * 500) \div 10000
        pf == (v * 100) \div 10000
        tokensOut == ((v - cf - pf) * WAD) \div getCurrentPrice
    IN /\ v > 0
       /\ c.ret = tokensOut
       /\ coinBalance' = [coinBalance EXCEPT ![c.caller] = @ + tokensOut]
       /\ coinSupply' = coinSupply + tokensOut
       /\ totalEthLocked' = totalEthLocked + (v - cf - pf)

EthAfterSell(u, g, feeTo) ==
    LET cf == (g * 500) \div 10000
        pf == (g * 100) \div 10000
    IN [a \in CoinAccounts |->
          ethBal[a]
          + (IF a = u THEN g - cf - pf ELSE 0)
          + (IF a = CREATOR THEN cf ELSE 0)
          + (IF a = feeTo THEN pf ELSE 0)
          - (IF a = COIN THEN g - (IF feeTo = ZERO THEN pf ELSE 0) ELSE 0)]

\* the gross quote of a sell of `t` tokens at the pre-trade price
GrossQuote(t) == (t * getCurrentPrice) \div WAD

\* the state a successful sell must leave, apart from the ETH balances
SellBurnsAndUnlocks(c) ==
    /\ c.x > 0
    /\ c.ret = GrossQuote(c.x) - (GrossQuote(c.x) * 500) \div 10000
                               - (GrossQuote(c.x) * 100) \div 10000
    /\ coinBalance' = [coinBalance EXCEPT ![c.caller] = @ - c.x]
    /\ coinSupply' = coinSupply - c.x
    /\ totalEthLocked' = totalEthLocked - GrossQuote(c.x)

C10_SellGuard ==
    /\ [](totalEthLocked >= 0)
    /\ [][ LET c == coinLast' IN
           (/\ c.op = "sell"
            /\ c.x > 0
            /\ coinBalance[c.caller] >= c.x
            /\ (c.x * getCurrentPrice) \div WAD > totalEthLocked)
           => /\ c.err = "Insufficient liquidity"
              /\ CoinUnchanged
         ]_vars

\* a holder's sell was refused because its quote exceeded the ETH locked by buys
C10_Witness ==
    /\ coinLast.op = "sell"
    /\ coinLast.err = "Insufficient liquidity"
    /\ coinBalance[coinLast.caller] >= coinLast.x
    /\ totalEthLocked > 0
    /\ GrossQuote(coinLast.x) > totalEthLocked

\* C11: buy(minTokensOut) fails with "Slippage exceeded" when the tokens quoted for
\* msg.value less both fees are fewer than minTokensOut, and sell(tokenAmount,
\* minEthOut) fails with "Slippage exceeded" when the payout net of both fees is
\* below minEthOut (the checks that come first in each function, on msg.value, on
\* the seller's balance and on the locked ETH, report their own reason); in both
\* cases supply, balances, totalEthLocked, totalVolume, totalTrades and allTimeHigh
\* are unchanged.
C11_CoinSlippage ==
    [][ LET c == coinLast'
            buyNet == c.x - CreatorFee(c.x) - ProtocolFee(c.x)
            gross == (c.x * getCurrentPrice) \div WAD
            sellNet == gross - CreatorFee(gross) - ProtocolFee(gross)
        IN
        /\ (/\ c.op = "buy"
            /\ (buyNet * WAD) \div getCurrentPrice < c.m)
           => /\ c.err # ""
              /\ c.x > 0 => c.err = "Slippage exceeded"
              /\ CoinUnchanged
              /\ coinSupply' = coinSupply
        /\ (/\ c.op = "sell"
            /\ sellNet < c.m)
           => /\ c.err # ""
              /\ (c.x > 0 /\ coinBalance[c.caller] >= c.x /\ gross <= totalEthLocked)
                     => c.err = "Slippage exceeded"
              /\ CoinUnchanged
              /\ coinSupply' = coinSupply
      ]_vars

\* a holder's sell, backed by the locked ETH, was refused because its net payout was
\* below minEthOut
C11_Witness ==
    /\ coinLast.op = "sell"
    /\ coinLast.err = "Slippage exceeded"
    /\ coinLast.x > 0
    /\ coinBalance[coinLast.caller] >= coinLast.x
    /\ GrossQuote(coinLast.x) <= totalEthLocked
    /\ GrossQuote(coinLast.x) - CreatorFee(GrossQuote(coinLast.x))
          - ProtocolFee(GrossQuote(coinLast.x)) < coinLast.m
    /\ totalTrades > 0

\* C26: after every successful buy allTimeHigh >= getCurrentPrice() at the
\* post-trade supply; allTimeHigh is the maximum post-trade price over all buys so
\* far (0 before the first trade, raised to the post-trade price by a buy that
\* exceeds it, moved by nothing else); it never decreases under buy, sell and
\* setPriceFloor.
C26_AllTimeHigh ==
    /\ [](totalTrades = 0 => allTimeHigh = 0)
    /\ [][ /\ CoinDid("buy") =>
                /\ allTimeHigh' >= CurrentPriceNext
                /\ allTimeHigh' = Max(allTimeHigh, CurrentPriceNext)
           /\ ~CoinDid("buy") => allTimeHigh' = allTimeHigh
           /\ allTimeHigh' >= allTimeHigh
         ]_vars

\* a buy, made after a sell had lowered the price, ended below the earlier peak
C26_Witness ==
    /\ coinLast.op = "buy" /\ coinLast.err = ""
    /\ totalTrades = 3
    /\ allTimeHigh > getCurrentPrice
    /\ getCurrentPrice > BASE_PRICE

\* C27: on a fresh coin (supply 0, no floor) a buy with 1 ether (WAD units) mints
\* floor(0.94 ether * 1e18 / BASE_PRICE) tokens; a second buy of 1 ether made
\* immediately afterwards mints strictly fewer tokens than the first.
C27_TwoBuys ==
    [][ LET c == coinLast'
            minted == coinBalance'[c.caller] - coinBalance[c.caller]
        IN (CoinDid("buy") /\ c.x = WAD) =>
             /\ (coinSupply = 0 /\ priceFloor = 0) =>
                   /\ c.ret = (((WAD * 94) \div 100) * WAD) \div BASE_PRICE
                   /\ minted = c.ret
             /\ ( /\ coinLast.op = "buy" /\ coinLast.err = "" /\ coinLast.x = WAD
                  /\ totalTrades = 1 /\ priceFloor = 0 /\ coinSupply = coinLast.ret )
                => /\ c.ret < coinLast.ret
                   /\ minted = c.ret
      ]_vars

\* two buys of 1 ether in a row on a fresh coin
C27_Witness ==
    /\ coinOps = 2 /\ totalTrades = 2
    /\ priceFloor = 0
    /\ coinLast.op = "buy" /\ coinLast.err = "" /\ coinLast.x = WAD
    /\ totalVolume = 2 * WAD
    /\ coinSupply = 9400 + coinLast.ret
    /\ coinLast.ret = 10

\* C36: in every reachable state the coin contract's ETH balance is >=
\* totalEthLocked; totalEthLocked is the sum of the post-fee ETH of all buys minus
\* the sum of the gross ETH of all sells (0 at deployment, raised by v - fees by a
\* buy of v, lowered by the gross quote by a sell, moved by nothing else), and it
\* is never negative.
C36_BackingSolvency ==
    /\ [](ethBal[COIN] >= totalEthLocked /\ totalEthLocked >= 0)
    /\ [](coinOps = 0 => totalEthLocked = 0)
    /\ [][ LET c == coinLast' IN
           /\ CoinDid("buy") =>
                 totalEthLocked' = totalEthLocked
                                   + (c.x - (c.x * 500) \div 10000 - (c.x * 100) \div 10000)
           /\ CoinDid("sell") =>
                 LET gross == (c.x * getCurrentPrice) \div WAD IN
                 /\ gross <= totalEthLocked
                 /\ gross <= ethBal[COIN]
                 /\ totalEthLocked' = totalEthLocked - gross
                 /\ ethBal'[COIN] >= ethBal[COIN] - gross
           /\ ~(CoinDid("buy") \/ CoinDid("sell")) => totalEthLocked' = totalEthLocked
         ]_vars

\* a sell was paid out of a backing that two buys had built up
C36_Witness ==
    /\ coinLast.op = "sell" /\ coinLast.err = "" /\ coinLast.ret > 0
    /\ totalTrades = 3
    /\ totalEthLocked > 0
    /\ ethBal[COIN] >= totalEthLocked

\* C37: an account that buys with value v and then, with no operation in between,
\* successfully sells any amount up to the tokens it just received gets back net
\* ETH <= v.
C37_RoundTripBounded ==
    [][ ( /\ CoinDid("sell")
          /\ coinLast.op = "buy" /\ coinLast.err = ""
          /\ coinLast.caller = coinLast'.caller
          /\ coinLast'.x <= coinLast.ret )
        => coinLast'.ret <= coinLast.x
      ]_vars

-----------------------------------------------------------------------------
(* Properties of AgentOracle (checked under SpecOracle) *)

\* the prices of a feed's current window, in submission order
WindowPrices(feed) == [i \in 1..Len(feed.submissions) |-> feed.submissions[i].price]

\* the k-th smallest of the prices, by counting (no sorting involved)
KthSmallest(prices, k) ==
    CHOOSE v \in {prices[i] : i \in DOMAIN prices} :
        /\ Cardinality({i \in DOMAIN prices : prices[i] < v}) < k
        /\ Cardinality({i \in DOMAIN prices : prices[i] <= v}) >= k

\* the integer median of the prices
IntegerMedian(prices) ==
    LET n == Len(prices) IN
    IF n % 2 = 1
    THEN KthSmallest(prices, (n + 1) \div 2)
    ELSE (KthSmallest(prices, n \div 2) + KthSmallest(prices, n \div 2 + 1)) \div 2

\* the feed the last call was about
LastFeed == priceFeeds[oracleLast.pair]

DeviationBps(p, c) == ((IF p > c THEN p - c ELSE c - p) * 10000) \div c

\* the caller passes the checks that precede the deviation check of submitPrice
PassesEntryChecks(c) ==
    /\ ~paused
    /\ agents[c.caller].isActive
    /\ agents[c.caller].owner # ZERO
    /\ c.price > 0
    /\ ~agentReputations[c.caller].isBanned

\* C13: with a consensus price C > 0, submitPrice(pair, p) with
\* floor(|p - C| * 10000 / C) > 1000 fails and p is not recorded in the window;
\* while the pair has no consensus (none was ever computed: a computed consensus is
\* positive), no submission is rejected for deviation.
C13_DeviationGuard ==
    [][ LET c == oracleLast'
            consensus == priceFeeds[c.pair].consensusPrice
        IN c.op = "submitPrice" =>
           /\ (consensus > 0 /\ DeviationBps(c.price, consensus) > 1000)
              => /\ c.err # ""
                 /\ PassesEntryChecks(c)
                       => c.err = "Price deviates too much from consensus"
                 /\ priceFeeds'[c.pair] = priceFeeds[c.pair]
           /\ consensus = 0 => c.err # "Price deviates too much from consensus"
           /\ c.consensus => priceFeeds'[c.pair].consensusPrice > 0
      ]_vars

\* 1000 was submitted for a pair whose consensus is 100, and rejected
C13_Witness ==
    /\ oracleLast.op = "submitPrice"
    /\ oracleLast.err = "Price deviates too much from consensus"
    /\ oracleLast.price = 1000
    /\ LastFeed.consensusPrice = 100
    /\ \A i \in 1..Len(LastFeed.submissions) : LastFeed.submissions[i].price # 1000

\* C14: a submitPrice call rejected for excessive deviation leaves the submitter's
\* reputation record as an inaccurate evaluation leaves it (banned, if the
\* evaluation triggers the ban).
C14_DeviationPenalty ==
    [][ LET c == oracleLast' IN
        (c.op = "submitPrice" /\ c.err = "Price deviates too much from consensus")
        => agentReputations'[c.caller]
              = updateReputation(agentReputations, c.caller, FALSE)[c.caller]
      ]_vars

\* C15: a submitPrice call that fails, for whatever reason, leaves every feed, the
\* activePairs list and every agent's reputation record as they were.
C15_AtomicFailure ==
    [][ (oracleLast'.op = "submitPrice" /\ oracleLast'.err # "")
        => UNCHANGED <<priceFeeds, activePairs, agentReputations>>
      ]_vars

\* a submission was rejected for deviation, from an agent whom the evaluation made
\* before the revert would have banned
C15_Witness ==
    /\ oracleLast.op = "submitPrice"
    /\ oracleLast.err = "Price deviates too much from consensus"
    /\ agentReputations[oracleLast.caller].totalSubmissions >= 20
    /\ ~agentReputations[oracleLast.caller].isBanned

\* C16: no two entries of a feed's current window have the same submitter; a second
\* submitPrice for the pair by an agent with an entry in the open window fails, with
\* "Already submitted" when no earlier check of the function rejects it.
C16_OnePerWindow ==
    /\ [](\A p \in Pairs : \A i, j \in 1..Len(priceFeeds[p].submissions) :
              i # j => priceFeeds[p].submissions[i].submitter
                         # priceFeeds[p].submissions[j].submitter)
    /\ [][ LET c == oracleLast'
               feed == priceFeeds[c.pair]
           IN ( /\ c.op = "submitPrice"
                /\ now <= feed.lastUpdate + SUBMISSION_WINDOW
                /\ \E i \in 1..Len(feed.submissions) :
                       feed.submissions[i].submitter = c.caller )
              => /\ c.err # ""
                 /\ ( /\ PassesEntryChecks(c)
                      /\ ~(/\ feed.consensusPrice > 0
                           /\ DeviationBps(c.price, feed.consensusPrice) > 1000) )
                    => c.err = "Already submitted"
         ]_vars

\* an agent with an entry in the open window submitted again and was refused
C16_Witness ==
    /\ oracleLast.op = "submitPrice"
    /\ oracleLast.err = "Already submitted"
    /\ \E i \in 1..Len(LastFeed.submissions) :
           LastFeed.submissions[i].submitter = oracleLast.caller
    /\ now <= LastFeed.lastUpdate + SUBMISSION_WINDOW

\* C17: consensusPrice of a pair changes, and ConsensusReached is emitted, only in a
\* successful submitPrice for that pair after which the window holds at least 3
\* submissions; a submission after which the window holds fewer keeps the previous
\* consensusPrice, which is 0 for a pair never submitted to.
C17_ConsensusThreshold ==
    /\ [](\A p \in Pairs : priceFeeds[p].pair = NoPair => priceFeeds[p].consensusPrice = 0)
    /\ [][ LET c == oracleLast' IN
           /\ \A p \in Pairs :
                 priceFeeds'[p].consensusPrice # priceFeeds[p].consensusPrice
                 => /\ c.op = "submitPrice"
                    /\ c.pair = p
                    /\ c.err = ""
                    /\ Len(priceFeeds'[p].submissions) >= 3
           /\ c.consensus
                 => /\ c.op = "submitPrice"
                    /\ Len(priceFeeds'[c.pair].submissions) >= 3
           /\ (c.op = "submitPrice" /\ Len(priceFeeds'[c.pair].submissions) < 3)
                 => /\ ~c.consensus
                    /\ priceFeeds'[c.pair].consensusPrice = priceFeeds[c.pair].consensusPrice
         ]_vars

\* the third submission of a window replaced an earlier consensus of the pair
C17_Witness ==
    /\ oracleLast.consensus
    /\ Len(LastFeed.submissions) = 3
    /\ LastFeed.consensusPrice = 102
    /\ agentReputations[oracleLast.caller].totalSubmissions > 3

\* C18: each time consensus is computed for a pair the window's submission counter
\* is cleared, while no agent's totalSubmissions, accurateSubmissions or isBanned is
\* cleared.
C18_ConsensusResetsCounter ==
    [][ oracleLast'.consensus =>
           /\ priceFeeds'[oracleLast'.pair].submissionCount = 0
           /\ \A a \in OracleAgents :
                 /\ agentReputations'[a].totalSubmissions
                       >= agentReputations[a].totalSubmissions
                 /\ agentReputations'[a].accurateSubmissions
                       >= agentReputations[a].accurateSubmissions
                 /\ agentReputations[a].isBanned => agentReputations'[a].isBanned
      ]_vars

\* the submitters of a feed's current window
Submitters(feed) == {feed.submissions[i].submitter : i \in 1..Len(feed.submissions)}

C20_BanPermanent ==
    [][ \A a \in OracleAgents :
           (agentReputations[a].isBanned /\ ~agentReputations'[a].isBanned)
           => /\ oracleLast'.op = "unbanAgent"
              /\ oracleLast'.caller = OWNER
              /\ oracleLast'.agent = a
              /\ oracleLast'.err = ""
      ]_vars

\* a consensus was computed over a window that holds the entry of a banned agent,
\* whose record was evaluated again and who is still banned
C20_Witness ==
    /\ oracleLast.consensus
    /\ Len(LastFeed.submissions) = 4
    /\ \E a \in Submitters(LastFeed) :
          /\ agentReputations[a].isBanned
          /\ a # oracleLast.caller

\* C29: an accepted submitPrice that arrives later than lastUpdate + 30 s discards
\* the window's previous submissions before recording the new one, so that the
\* window then holds exactly that submission, and an agent with an entry in the
\* expired window can submit again; an accepted submitPrice inside the window
\* appends; the window changes in no other way than by an accepted submitPrice.
C29_LazyWindowReset ==
    [][ LET c == oracleLast' IN
        /\ c.op = "submitPrice" =>
              LET feed == priceFeeds[c.pair]
                  entry == [price |-> c.price, timestamp |-> now, submitter |-> c.caller]
                  expired == now > feed.lastUpdate + 30
              IN /\ (c.err = "" /\ expired) =>
                       /\ priceFeeds'[c.pair].submissions = <<entry>>
                       /\ priceFeeds'[c.pair].submissionCount = 1
                       /\ priceFeeds'[c.pair].lastUpdate = now
                 /\ (c.err = "" /\ ~expired) =>
                       priceFeeds'[c.pair].submissions = Append(feed.submissions, entry)
                 /\ ( /\ expired
                      /\ c.caller \in Submitters(feed)
                      /\ PassesEntryChecks(c)
                      /\ ~(/\ feed.consensusPrice > 0
                           /\ DeviationBps(c.price, feed.consensusPrice) > 1000) )
                    => c.err = ""
        /\ \A p \in Pairs :
              priceFeeds'[p].submissions # priceFeeds[p].submissions
              => (c.op = "submitPrice" /\ c.pair = p /\ c.err = "")
      ]_vars

\* an agent with an entry in a window of two submitted again after the window had
\* expired, and its submission is the only one of the new window
C29_Witness ==
    /\ oracleLast.op = "submitPrice" /\ oracleLast.err = ""
    /\ oracleLast.caller = "a2" /\ oracleLast.pair = "ETH/USD"
    /\ Len(LastFeed.submissions) = 1
    /\ LastFeed.submissions[1].submitter = "a2"
    /\ LastFeed.submissions[1].timestamp = now
    /\ LastFeed.submissionCount = 1
    /\ agentReputations["a1"].totalSubmissions = 1
    /\ agentReputations["a2"].totalSubmissions = 2
    /\ now = StartTime + 31
    /\ oracleOps = 2

\* C30: within one submission window consensus is computed at the accepted
\* submission that first brings the window's count to 3, over all submissions
\* present at that moment; later accepted submissions in the same window do not
\* trigger another consensus computation.
C30_FirstTriggerOnly ==
    [][ LET c == oracleLast' IN
        (c.op = "submitPrice" /\ c.err = "") =>
           LET before == priceFeeds[c.pair]
               after == priceFeeds'[c.pair]
               sameWindow == now <= before.lastUpdate + 30
           IN /\ Len(after.submissions) = 3 =>
                    /\ c.consensus
                    /\ after.consensusPrice = IntegerMedian(WindowPrices(after))
              /\ (sameWindow /\ Len(before.submissions) >= 3) => ~c.consensus
      ]_vars

\* the price an agent has in a window (each agent has at most one entry)
PriceOf(feed, a) ==
    LET i == CHOOSE k \in 1..Len(feed.submissions) : feed.submissions[k].submitter = a
    IN feed.submissions[i].price

\* C31: when consensus M is computed, every submitter with an entry in the window
\* is scored once against M: accurateSubmissions is incremented (by one) exactly
\* for those whose price p satisfies floor(|p - M| * 10000 / M) <= 200, and is left
\* unchanged for the others (and for the agents without an entry).
C31_AccuracyScoring ==
    [][ LET c == oracleLast' IN
        c.consensus =>
           LET feed == priceFeeds'[c.pair]
               M == feed.consensusPrice
           IN /\ M > 0
              /\ \A a \in OracleAgents :
                    agentReputations'[a].accurateSubmissions =
                       agentReputations[a].accurateSubmissions
                       + (IF a \in Submitters(feed) /\ DeviationBps(PriceOf(feed, a), M) <= 200
                          THEN 1 ELSE 0)
      ]_vars

\* a consensus was computed over a window in which one submitter was within 2% of
\* the median and another was not
C31_Witness ==
    /\ oracleLast.consensus
    /\ \E a \in Submitters(LastFeed) :
           DeviationBps(PriceOf(LastFeed, a), LastFeed.consensusPrice) <= 200
    /\ \E a \in Submitters(LastFeed) :
           /\ DeviationBps(PriceOf(LastFeed, a), LastFeed.consensusPrice) > 200
           /\ DeviationBps(PriceOf(LastFeed, a), LastFeed.consensusPrice) <= 1000

\* C38: in every reachable state every agent has accurateSubmissions <=
\* totalSubmissions, so the accuracy reported by getAgentReputation never exceeds
\* 100.
C38_CountersConsistent ==
    \A a \in OracleAgents :
        /\ agentReputations[a].accurateSubmissions <= agentReputations[a].totalSubmissions
        /\ reportedAccuracy(OracleState, a) <= 100

\* C39: whenever getPrice(pair) returns a non-zero price with isStale = false, that
\* consensus price was computed no more than MAX_PRICE_AGE before the read: the
\* returned timestamp is the time at which the returned price was computed.
C39_StalenessSound ==
    \A p \in Pairs :
        LET r == oracleGetPrice(OracleState, p) IN
        (r.price # 0 /\ ~r.isStale)
        => /\ r.timestamp = priceFeeds[p].computedAt
           /\ now <= priceFeeds[p].computedAt + MAX_PRICE_AGE

-----------------------------------------------------------------------------
(* Properties of WelcomeBonus (checked under SpecBonus) *)

BonusUnchanged ==
    UNCHANGED <<token, bonusAmount, claimed, totalClaims, claimingEnabled, relayer,
                minters, thryxBalance, credited>>

\* the addresses whose claimed flag is set
Claimants == {a \in BonusAccounts : claimed[a]}

\* C28: every address is credited the bonus at most once across claimWelcomeBonus
\* and claimFor, in any interleaving; a claim for an address whose claimed flag is
\* already true fails (with "already claimed" once the checks placed before it
\* have passed); claimFor by a caller that is neither relayer nor owner fails;
\* totalClaims always equals the number of addresses with claimed = true.
C28_SingleClaim ==
    /\ [](/\ \A a \in BonusAccounts : credited[a] = (IF claimed[a] THEN 1 ELSE 0)
          /\ totalClaims = Cardinality(Claimants))
    /\ [][ LET c == bonusLast'
               isClaim == c.op \in {"claimWelcomeBonus", "claimFor"}
               authorized == c.caller = relayer \/ c.caller = BONUS_OWNER
           IN /\ (isClaim /\ claimed[c.who]) =>
                    /\ c.err # ""
                    /\ BonusUnchanged
                    /\ (claimingEnabled /\ (c.op = "claimFor" => authorized))
                          => c.err = "WelcomeBonus: already claimed"
              /\ (c.op = "claimFor" /\ ~authorized) =>
                    /\ c.err = "WelcomeBonus: not authorized"
                    /\ BonusUnchanged
              /\ (isClaim /\ c.err = "") =>
                    /\ ~claimed[c.who]
                    /\ credited' = [credited EXCEPT ![c.who] = 1]
                    /\ thryxBalance' =
                          [thryxBalance EXCEPT ![token][c.who] = @ + bonusAmount]
              /\ ~(isClaim /\ c.err = "") =>
                    UNCHANGED <<claimed, totalClaims, thryxBalance, credited>>
         ]_vars

\* the relayer's claimFor for an address that had claimed by itself was refused,
\* after another address had been credited as well
C28_Witness ==
    /\ bonusLast.op = "claimFor" /\ bonusLast.caller = RELAYER
    /\ bonusLast.err = "WelcomeBonus: already claimed"
    /\ claimed[bonusLast.who]
    /\ thryxBalance[THRYX][bonusLast.who] = DEFAULT_BONUS
    /\ totalClaims = 2
    /\ bonusOps = 3


-----------------------------------------------------------------------------
(* Properties of ThryxToken (checked under SpecStake) *)

\* C40: in every state reachable by stake, unstake, claimRewards and transfers the
\* token balance held by the token contract is at least totalStaked, totalStaked is
\* the sum of all stakedBalance entries, and every staker can unstake their full
\* stakedBalance.
C40_StakingSolvency ==
    /\ balanceOf[THRYX_TOKEN] >= totalStaked
    /\ totalStaked = SumOver(stakedBalance, TokenCallers)
    /\ \A u \in TokenCallers :
           stakedBalance[u] > 0 => unstake(StakeState, u, stakedBalance[u]).err = ""

=============================================================================
